---- MODULE Spec2Model ----
(***************************************************************************)
(* A model of the combat-statistics pipeline of mcp-lol-server (src/csu):  *)
(* champion base stats, item/rune aggregation, final-stat resolution, the  *)
(* combat formulas and the auto-attack simulation with its HTTP endpoint.  *)
(*                                                                         *)
(* JavaScript numbers are modelled in fixed point:                         *)
(*   - stat values, damage, health, resistances : thousandths  (milli)     *)
(*   - attack speed                             : thousandths  (milli)     *)
(*   - fractions (percent modifiers, crit)      : ten-thousandths (bp)     *)
(*   - simulated time                           : millionths of a second   *)
(*   - champion level                           : tenths of a level        *)
(* A value that may be NaN, Infinity, null or undefined is a record        *)
(* [k |-> kind, v |-> number].                                             *)
(***************************************************************************)
EXTENDS Integers, Sequences, FiniteSets, Bags, TLC

VARIABLES
  heap,     \* the "stats" objects by address: the template's and the running call's target's
  pending,  \* the calls of runAutoAttackSimulation suspended at an await (a bag)
  run,      \* the call whose synchronous code is executing, and its outcome
  rsv,      \* a caller of calculateFinalChampionStats and the maps it holds
  fcall,    \* the latest call of an aggregation or combat function by a caller
  mcp,      \* server.js: the configuration, the two caches and the latest tool call
  store,    \* a module-level data store of csu, its file and the callers loading it
  sse       \* app.js: the SSE session table and the latest POST /messages

vars == <<heap, pending, run, rsv, fcall, mcp, store, sse>>

-----------------------------------------------------------------------------
(* JavaScript values *)

Num(n)    == [k |-> "num", v |-> n]
NaN       == [k |-> "NaN", v |-> 0]
Infinity  == [k |-> "Infinity", v |-> 0]
null      == [k |-> "null", v |-> 0]
undefined == [k |-> "undefined", v |-> 0]
IsNum(x)  == x.k = "num"

Abs(n) == IF n < 0 THEN 0 - n ELSE n
Sgn(n) == IF n < 0 THEN 0 - 1 ELSE 1
Min(a, b) == IF a < b THEN a ELSE b

(* floor(a * b / c) and the remainder, for a, b >= 0 and 0 < c < 2^30, by   *)
(* binary long multiplication so that no intermediate exceeds 32 bits.     *)
(* (The partial result h is bound once per step.)                          *)
RECURSIVE MulDivQR(_, _, _)
MulDivStep(h, a, odd, c) ==
  LET q2 == 2 * h[1] + ((2 * h[2]) \div c)
      r2 == (2 * h[2]) % c
  IN  IF odd THEN <<q2 + (a \div c) + ((r2 + (a % c)) \div c), (r2 + (a % c)) % c>>
             ELSE <<q2, r2>>
MulDivQR(a, b, c) ==
  IF b = 0 THEN <<0, 0>>
  ELSE CHOOSE qr \in {MulDivStep(h, a, b % 2 = 1, c) : h \in {MulDivQR(a, b \div 2, c)}} :
         TRUE

(* The quotient of qr = <<q, r>> rounded to the nearest integer, ties up *)
Nearest(qr, c) == qr[1] + (IF 2 * qr[2] >= c THEN 1 ELSE 0)

(* a * b / c truncated toward zero, any signs of a and b.  (The arguments  *)
(* are bound to their values once, as t.)                                  *)
MulDiv(a, b, c) ==
  CHOOSE q \in {Sgn(t[1]) * Sgn(t[2]) * MulDivQR(Abs(t[1]), Abs(t[2]), t[3])[1] :
                  t \in {<<a, b, c>>}} : TRUE

(* a * b / c rounded to the nearest integer, ties away from zero. *)
MulDivRound(a, b, c) ==
  CHOOSE q \in {Sgn(t[1]) * Sgn(t[2]) * Nearest(MulDivQR(Abs(t[1]), Abs(t[2]), t[3]), t[3]) :
                  t \in {<<a, b, c>>}} : TRUE

(* Number.prototype.toFixed(d) followed by parseFloat: x, held in units of *)
(* 1/unit-th, rounded to a multiple of `step` of those units.              *)
ToFixed(x, step) == Sgn(x) * (((Abs(x) + (step \div 2)) \div step) * step)

-----------------------------------------------------------------------------
(* Stat-modifier maps: partial functions from modifier keys to numbers.    *)
(* Flat values are in thousandths, percent values in ten-thousandths.      *)

EmptyMap == [k \in {} |-> 0]

(* m[k] || 0 *)
Get(m, k) == IF k \in DOMAIN m THEN m[k] ELSE 0

(* { ...a, ...b } *)
Spread(a, b) ==
  [k \in (DOMAIN a) \cup (DOMAIN b) |-> IF k \in DOMAIN b THEN b[k] ELSE a[k]]

(* m with m[k] = v *)
Put(m, k, v) == [j \in (DOMAIN m) \cup {k} |-> IF j = k THEN v ELSE m[j]]

(* A variant that assigns instead of adding: agg[statName] = value *)
AddInto_Overwrite(agg, m) ==
  [k \in (DOMAIN agg) \cup (DOMAIN m) |-> IF k \in DOMAIN m THEN m[k] ELSE agg[k]]

(* for each [statName, value] of m: agg[statName] = (agg[statName] || 0) + value *)
AddInto(agg, m) ==
  [k \in (DOMAIN agg) \cup (DOMAIN m) |-> Get(agg, k) + Get(m, k)]

-----------------------------------------------------------------------------
(* The data files data/champions.json, data/items.json and data/runes.json *)
(* are inputs of the program.  The tables below are the contents used here. *)

RawStats(hp, hppl, mp, mppl, ad, adpl, ar, arpl, mr, mrpl, as, aspl, cr, ms) ==
  [hp |-> hp, hpperlevel |-> hppl, mp |-> mp, mpperlevel |-> mppl,
   attackdamage |-> ad, attackdamageperlevel |-> adpl,
   armor |-> ar, armorperlevel |-> arpl,
   spellblock |-> mr, spellblockperlevel |-> mrpl,
   attackspeed |-> as, attackspeedperlevel |-> aspl, attackspeedratio |-> 0,
   crit |-> cr, critperlevel |-> 0, movespeed |-> ms,
   mpregen |-> 8000, mpregenperlevel |-> 800,
   hpregen |-> 5500, hpregenperlevel |-> 550, attackrange |-> 175000]

(* champions.json: id -> { name, stats }.  "Duelist" has 200 attack damage *)
(* and 1.0 attack speed at level 1; "Crusher" kills the target in a few    *)
(* hits; "Colossus" kills it with one hit; "Statue" has base attack speed  *)
(* 0; "Reaper" has 1745.2 attack damage and 0.1 attack speed; "Ahri" has   *)
(* the values quoted in the champion tests.                                *)
ChampionsJson ==
  [Duelist  |-> [name |-> "Duelist",
                 stats |-> RawStats(600000, 100000, 300000, 40000, 200000, 3500,
                                     30000, 4200, 32000, 2050, 1000, 2000, 0, 340000)],
   Crusher  |-> [name |-> "Crusher",
                 stats |-> RawStats(650000, 110000, 0, 0, 4000000, 0,
                                     38000, 4700, 32000, 2050, 625, 3500, 0, 345000)],
   Colossus |-> [name |-> "Colossus",
                 stats |-> RawStats(700000, 120000, 0, 0, 20000000, 0,
                                     40000, 5000, 32000, 2050, 500, 0, 0, 335000)],
   Statue   |-> [name |-> "Statue",
                 stats |-> RawStats(500000, 90000, 0, 0, 60000, 3000,
                                     30000, 4000, 30000, 1300, 0, 2000, 0, 325000)],
   Reaper   |-> [name |-> "Reaper",
                 stats |-> RawStats(550000, 95000, 0, 0, 1745200, 3610,
                                     28000, 4000, 30000, 1300, 100, 0, 0, 330000)],
   Ahri     |-> [name |-> "Ahri",
                 stats |-> RawStats(570000, 96000, 418000, 25000, 53000, 3000,
                                     21000, 4700, 30000, 1300, 668, 2000, 0, 330000)]]

(* One "+N Stat Name" or "+N% Stat Name" phrase of a description. *)
Flat(n, text) == [n |-> n, pct |-> FALSE, text |-> text]
Pct(n, text)  == [n |-> n, pct |-> TRUE, text |-> text]

(* items.json: id -> { description, stats }.  A description is the         *)
(* sequence of its "+N ..." phrases, in order of appearance.               *)
ItemsJson ==
  [sword |-> [description |-> <<Flat(25, "Attack Damage"), Flat(180, "Health")>>,
              stats |-> EmptyMap],
   cloak |-> [description |-> <<Pct(50, "Critical Strike Chance"),
                                Pct(35, "Critical Strike Damage")>>,
              stats |-> EmptyMap],
   dirk  |-> [description |-> <<Flat(10, "Attack Damage"), Flat(18, "Lethality")>>,
              stats |-> EmptyMap],
   boots |-> [description |-> <<Pct(35, "Attack Speed"), Flat(45, "Movement Speed")>>,
              stats |-> [k \in {"FlatMovementSpeedMod"} |-> 45000]],
   edge  |-> [description |-> <<Pct(100, "Critical Strike Chance"),
                                Pct(16, "Critical Strike Damage")>>,
              stats |-> EmptyMap],
   hammer |-> [description |-> <<Flat(20000, "Attack Damage")>>,
               stats |-> EmptyMap],
   spear |-> [description |-> <<Flat(200, "Lethality")>>,
              stats |-> EmptyMap],
   frost |-> [description |-> << >>,
              stats |-> [k \in {"PercentAttackSpeedMod"} |-> 0 - 10000]]]

(* A rune id as the caller passes it or as runes.json stores it: the       *)
(* number n, or the string of its digits.                                  *)
IdNumber(n) == [t |-> "number", v |-> n]
IdString(n) == [t |-> "string", v |-> n]

(* runes.json, flattened: the runes of all slots of all trees, in order. *)
RunesJson ==
  <<[id |-> IdNumber(8112), shortDesc |-> << >>, longDesc |-> << >>],
    [id |-> IdNumber(5008), shortDesc |-> <<Flat(9, "Adaptive Force")>>, longDesc |-> << >>],
    [id |-> IdNumber(5005), shortDesc |-> <<Pct(10, "Attack Speed")>>, longDesc |-> << >>],
    [id |-> IdNumber(5002), shortDesc |-> <<Flat(6, "Armor")>>, longDesc |-> << >>]>>

-----------------------------------------------------------------------------
(* Description parsers *)

(* Whether the regular expression of a pattern, /\+(\d+)[%]\s+label/i,     *)
(* matches at a phrase: the unit agrees and the label is a prefix of the   *)
(* phrase's text.                                                          *)
LabelIsPrefix(label, text) ==
  \/ label = text
  \/ <<label, text>> \in {<<"Magic Resist", "Magic Resistance">>,
                          <<"Armor", "Armor Penetration">>,
                          <<"Health", "Health Regen">>,
                          <<"Mana", "Mana Regen">>}

PatternMatches(pat, phrase) ==
  phrase.pct = pat.pct /\ LabelIsPrefix(pat.label, phrase.text)

P(name, label, pct) == [name |-> name, label |-> label, pct |-> pct]

ItemStatPatterns ==
  <<P("FlatAttackDamageMod", "Attack Damage", FALSE),
    P("FlatAbilityPowerMod", "Ability Power", FALSE),
    P("FlatArmorMod", "Armor", FALSE),
    P("FlatMagicResistMod", "Magic Resist", FALSE),
    P("FlatMagicResistMod", "Magic Resistance", FALSE),
    P("FlatHealthMod", "Health", FALSE),
    P("FlatManaMod", "Mana", FALSE),
    P("FlatMovementSpeedMod", "Movement Speed", FALSE),
    P("PercentAttackSpeedMod", "Attack Speed", TRUE),
    P("PercentMovementSpeedMod", "Movement Speed", TRUE),
    P("PercentCritChanceMod", "Critical Strike Chance", TRUE),
    P("PercentCritDamageMod", "Critical Strike Damage", TRUE),
    P("FlatLethalityMod", "Lethality", FALSE),
    P("FlatMagicPenetrationMod", "Magic Penetration", FALSE),
    P("PercentArmorPenetrationMod", "Armor Penetration", TRUE),
    P("PercentMagicPenetrationMod", "Magic Penetration", TRUE),
    P("PercentHealAndShieldPowerMod", "Heal and Shield Power", TRUE),
    P("FlatAbilityHasteMod", "Ability Haste", FALSE),
    P("PercentBaseHealthRegenMod", "Base Health Regen", TRUE),
    P("PercentBaseManaRegenMod", "Base Mana Regen", TRUE)>>

StatShardPatterns ==
  <<P("AdaptiveForce", "Adaptive Force", FALSE),
    P("FlatArmorMod", "Armor", FALSE),
    P("FlatMagicResistMod", "Magic Resist", FALSE),
    P("FlatMagicResistMod", "Magic Resistance", FALSE),
    P("FlatHealthMod", "Health", FALSE),
    P("FlatAbilityHasteMod", "Ability Haste", FALSE),
    P("PercentAttackSpeedMod", "Attack Speed", TRUE)>>

(* String.prototype.match without the g flag: the first match only.  The   *)
(* value is parseInt of the digits, divided by 100 for a percent pattern.  *)
FirstMatch(pat, description) ==
  LET hits == {i \in DOMAIN description : PatternMatches(pat, description[i])}
  IN  IF hits = {} THEN 0
      ELSE CHOOSE i \in hits : \A j \in hits : i <= j

MatchValue(pat, phrase) == IF pat.pct THEN phrase.n * 100 ELSE phrase.n * 1000

RECURSIVE ParseWith(_, _, _, _)
ParseWith(patterns, i, description, stats) ==
  IF i > Len(patterns) THEN stats
  ELSE LET pat == patterns[i]
           at  == FirstMatch(pat, description)
       IN  ParseWith(patterns, i + 1, description,
             IF at = 0 THEN stats
             ELSE Put(stats, pat.name,
                      Get(stats, pat.name) + MatchValue(pat, description[at])))

(* An empty or missing description is falsy: the parsers return {}. *)
parseItemStatsFromString(descriptionString) ==
  IF descriptionString = << >> THEN EmptyMap
  ELSE ParseWith(ItemStatPatterns, 1, descriptionString, EmptyMap)

parseRuneStatsFromString(descriptionString) ==
  IF descriptionString = << >> THEN EmptyMap
  ELSE ParseWith(StatShardPatterns, 1, descriptionString, EmptyMap)

-----------------------------------------------------------------------------
(* items.js, runes.js, championRawStats.js: lookups in the loaded data *)

(* Keys that the object JSON.parse returns inherits from Object.prototype; *)
(* data["constructor"] is the function Object, which has a name and no     *)
(* stats.                                                                  *)
ObjectPrototypeKeys == {"constructor"}
InheritedMember == [name |-> "Object"]

(* data[championId], or null when that is falsy *)
getRawChampionData(championId) ==
  IF championId \in DOMAIN ChampionsJson
  THEN [found |-> TRUE, data |-> ChampionsJson[championId]]
  ELSE IF championId \in ObjectPrototypeKeys
       THEN [found |-> TRUE, data |-> InheritedMember]
       ELSE [found |-> FALSE, data |-> EmptyMap]

(* finalStats = { ...parsedDescriptionStats, ...rawItem.stats } *)
getProcessedItemData(itemId) ==
  IF itemId \notin DOMAIN ItemsJson
  THEN [found |-> FALSE, finalStats |-> EmptyMap]
  ELSE LET rawItem == ItemsJson[itemId]
       IN  [found |-> TRUE,
            finalStats |-> Spread(parseItemStatsFromString(rawItem.description),
                                  rawItem.stats)]

(* rune.id === runeId: a string id never equals a numeric id *)
findRuneById(runeId) ==
  LET hits == {i \in DOMAIN RunesJson : RunesJson[i].id = runeId}
  IN  IF hits = {} THEN 0 ELSE CHOOSE i \in hits : \A j \in hits : i <= j

getProcessedRuneData(runeId) ==
  LET at == findRuneById(runeId)
  IN  IF at = 0
      THEN [found |-> FALSE, isStatShard |-> FALSE, parsedStats |-> EmptyMap]
      ELSE LET rawRune == RunesJson[at]
               parsedStats ==
                 IF rawRune.shortDesc # << >>
                 THEN parseRuneStatsFromString(rawRune.shortDesc)
                 ELSE IF rawRune.longDesc # << >>
                      THEN parseRuneStatsFromString(rawRune.longDesc)
                      ELSE EmptyMap
           IN  [found |-> TRUE,
                isStatShard |-> (DOMAIN parsedStats) # {},
                parsedStats |-> parsedStats]

-----------------------------------------------------------------------------
(* statAggregator.js: aggregation *)

(* A variant that gives up at the first id without data and returns       *)
(* nothing                                                                 *)
RECURSIVE aggregateItemStats_AbortOnUnknown(_)
aggregateItemStats_AbortOnUnknown(itemIds) ==
  IF itemIds = << >> THEN EmptyMap
  ELSE LET n == Len(itemIds)
           aggregatedStats == aggregateItemStats_AbortOnUnknown(SubSeq(itemIds, 1, n - 1))
           itemData == getProcessedItemData(itemIds[n])
       IN  IF \A i \in 1..n : getProcessedItemData(itemIds[i]).found
           THEN AddInto(aggregatedStats, itemData.finalStats)
           ELSE EmptyMap

RECURSIVE aggregateItemStats(_)
aggregateItemStats(itemIds) ==
  IF itemIds = << >> THEN EmptyMap
  ELSE LET n == Len(itemIds)
           aggregatedStats == aggregateItemStats(SubSeq(itemIds, 1, n - 1))
           itemData == getProcessedItemData(itemIds[n])
       IN  IF itemData.found THEN AddInto(aggregatedStats, itemData.finalStats)
           ELSE aggregatedStats

RECURSIVE aggregateRuneStats(_)
aggregateRuneStats(runeIds) ==
  IF runeIds = << >> THEN EmptyMap
  ELSE LET n == Len(runeIds)
           aggregatedStats == aggregateRuneStats(SubSeq(runeIds, 1, n - 1))
           runeData == getProcessedRuneData(runeIds[n])
       IN  IF runeData.found /\ runeData.isStatShard
           THEN AddInto(aggregatedStats, runeData.parsedStats)
           ELSE aggregatedStats

-----------------------------------------------------------------------------
(* champion.js *)

ErrRequired     == "Champion ID and Level are required for simulation."
ErrNotFound     == "Raw data for champion not found."
ErrMissing      == "Raw data for champion is missing."
ErrInvalidLevel == "Invalid level for champion. Must be between 1 and 18."
ErrTypeError    == "Cannot read properties of undefined (reading 'hp')"
NoError         == ""

(* A level is a number or a numeric string, in tenths of a level, or one  *)
(* of the other JavaScript values.                                         *)
Str(n) == [k |-> "str", v |-> n]

(* Whether a relational operator converts the value to a number (not NaN) *)
IsNumeric(x) == x.k \in {"num", "str", "null"}

(* !x *)
Falsy(x) == x.k \in {"NaN", "null", "undefined"} \/ (x.k = "num" /\ x.v = 0)

(* parseInt(level, 10) of a non-negative value *)
ParseInt(level) == IF level.k \in {"num", "str"} THEN Num(level.v \div 10) ELSE NaN

(* new Champion(championId, level, rawChampionData).  A comparison with a  *)
(* value that does not convert to a number is false, so such a level does  *)
(* not throw.                                                              *)
Champion(championId, level, raw) ==
  IF ~raw.found THEN [threw |-> ErrMissing, level |-> NaN, rawStats |-> EmptyMap]
  ELSE IF IsNumeric(level) /\ (level.v < 10 \/ level.v > 180)
       THEN [threw |-> ErrInvalidLevel, level |-> NaN, rawStats |-> EmptyMap]
       ELSE [threw |-> NoError, level |-> ParseInt(level),
             rawStats |-> IF "stats" \in DOMAIN raw.data THEN raw.data.stats ELSE undefined,
             name |-> raw.data.name]

(* getBaseStatsAtLevel reads s.hp: a TypeError when rawStats is undefined *)
getBaseStatsAtLevelThrows(champion) == champion.rawStats = undefined

(* Champion.getBaseStatsAtLevel, for a champion whose level is a number *)
getBaseStatsAtLevel(champion) ==
  LET s == champion.rawStats
      lvlMinusOne == champion.level.v - 1
  IN  [name |-> champion.name,
       level |-> champion.level.v,
       hp |-> ToFixed(s.hp + s.hpperlevel * lvlMinusOne, 10),
       mp |-> ToFixed(s.mp + s.mpperlevel * lvlMinusOne, 10),
       ad |-> ToFixed(s.attackdamage + s.attackdamageperlevel * lvlMinusOne, 10),
       armor |-> ToFixed(s.armor + s.armorperlevel * lvlMinusOne, 10),
       magicResist |-> ToFixed(s.spellblock + s.spellblockperlevel * lvlMinusOne, 10),
       attackSpeed |->
         MulDivRound(s.attackspeed, 100000 + s.attackspeedperlevel * lvlMinusOne, 100000),
       baseAttackSpeedValue |-> s.attackspeed,
       attackSpeedRatio |->
         IF s.attackspeedratio # 0 THEN s.attackspeedratio ELSE s.attackspeed,
       attackSpeedGrowthPercentage |-> s.attackspeedperlevel,
       critChance |-> ToFixed(s.crit + s.critperlevel * lvlMinusOne, 100),
       moveSpeed |-> ToFixed(s.movespeed, 1000),
       manaRegen |-> s.mpregen + s.mpregenperlevel * lvlMinusOne,
       healthRegen |-> s.hpregen + s.hpregenperlevel * lvlMinusOne,
       attackRange |-> ToFixed(s.attackrange, 1000)]

-----------------------------------------------------------------------------
(* statAggregator.js: calculateFinalChampionStats *)

(* The AdaptiveForce pre-calculation, which writes into totalRuneStats. *)
AdaptiveRuneStats(championBaseStats, totalRuneStats) ==
  LET adaptiveForceValue == Get(totalRuneStats, "AdaptiveForce")
  IN  IF adaptiveForceValue > 0
      THEN IF championBaseStats.ad > Get(championBaseStats, "ap")
           THEN Put(totalRuneStats, "FlatAttackDamageMod",
                    Get(totalRuneStats, "FlatAttackDamageMod") + adaptiveForceValue)
           ELSE Put(totalRuneStats, "FlatAbilityPowerMod",
                    Get(totalRuneStats, "FlatAbilityPowerMod") + adaptiveForceValue)
      ELSE totalRuneStats

(* A variant that applies the percent to the base alone and adds the flat  *)
(* amount afterwards                                                       *)
FlatThenPercent_PercentFirst(base, flat, percent, step) ==
  MulDivRound(base * 10 + MulDivRound(base, percent, 1000) + flat * 10, 1, 10 * step) * step

(* (base + flat) * (1 + percent), rounded to `step` thousandths *)
FlatThenPercent(base, flat, percent, step) ==
  MulDivRound(base + flat, 10000 + percent, 10000 * step) * step

(* A variant that leaves the level factor out: the level-1 value times    *)
(* (1 + bonus).                                                            *)
FinalAttackSpeed_NoLevelFactor(championBaseStats, asBonusPercentFromItemsRunes) ==
  IF championBaseStats.baseAttackSpeedValue = 0 THEN NaN
  ELSE LET as == MulDivRound(championBaseStats.baseAttackSpeedValue,
                             10000 + asBonusPercentFromItemsRunes, 10000)
       IN  Num(IF as > 2500 THEN 2500 ELSE as)

(* A variant without the cap *)
FinalAttackSpeed_NoCap(championBaseStats, asBonusPercentFromItemsRunes) ==
  IF championBaseStats.baseAttackSpeedValue = 0 THEN NaN
  ELSE Num(MulDivRound(championBaseStats.attackSpeed * 10000
                       + championBaseStats.baseAttackSpeedValue
                         * asBonusPercentFromItemsRunes, 1, 10000))

(* baseAttackSpeedValue * (1 + asFromLevelFactor + bonus), capped at 2.5,  *)
(* toFixed(3).  With a level-1 attack speed of 0 the level factor is 0/0.  *)
FinalAttackSpeed(championBaseStats, asBonusPercentFromItemsRunes) ==
  IF championBaseStats.baseAttackSpeedValue = 0 THEN NaN
  ELSE LET as == MulDivRound(championBaseStats.attackSpeed * 10000
                             + championBaseStats.baseAttackSpeedValue
                               * asBonusPercentFromItemsRunes, 1, 10000)
       IN  Num(IF as > 2500 THEN 2500 ELSE as)

(* Returns the final stats and totalRuneStats as the call leaves it. *)
calculateFinalChampionStats(championBaseStats, totalItemStats, totalRuneStats) ==
  LET runes == AdaptiveRuneStats(championBaseStats, totalRuneStats)
      Sum(statName) == Get(totalItemStats, statName) + Get(runes, statName)
      baseAd == championBaseStats.ad
      abilityHaste == Sum("FlatAbilityHasteMod")
      computed ==
        [hp |-> FlatThenPercent(championBaseStats.hp, Sum("FlatHealthMod"),
                                Sum("PercentHealthMod"), 100),
         mp |-> FlatThenPercent(championBaseStats.mp, Sum("FlatManaMod"),
                                Sum("PercentManaMod"), 100),
         ad |-> FlatThenPercent(baseAd, Sum("FlatAttackDamageMod"),
                                Sum("PercentAttackDamageMod"), 100),
         bonusAd |-> FlatThenPercent(baseAd, Sum("FlatAttackDamageMod"),
                                     Sum("PercentAttackDamageMod"), 1) - baseAd,
         ap |-> FlatThenPercent(Get(championBaseStats, "ap"), Sum("FlatAbilityPowerMod"),
                                Sum("PercentAbilityPowerMod"), 100),
         armor |-> FlatThenPercent(championBaseStats.armor, Sum("FlatArmorMod"),
                                   Sum("PercentArmorMod"), 100),
         magicResist |-> FlatThenPercent(championBaseStats.magicResist,
                                         Sum("FlatMagicResistMod"),
                                         Sum("PercentMagicResistMod"), 100),
         attackSpeed |-> FinalAttackSpeed(championBaseStats, Sum("PercentAttackSpeedMod")),
         critChance |-> Min(10000, championBaseStats.critChance + Sum("PercentCritChanceMod")),
         bonusCritDamagePercent |-> Sum("PercentCritDamageMod"),
         moveSpeed |-> FlatThenPercent(championBaseStats.moveSpeed,
                                       Sum("FlatMovementSpeedMod"),
                                       Sum("PercentMovementSpeedMod"), 100),
         abilityHaste |-> abilityHaste,
         cooldownReduction |-> MulDivRound(abilityHaste, 10000, 100000 + abilityHaste),
         lethality |-> Sum("FlatLethalityMod"),
         flatMagicPen |-> Sum("FlatMagicPenetrationMod"),
         percentArmorPen |-> Sum("PercentArmorPenetrationMod"),
         percentMagicPen |-> Sum("PercentMagicPenetrationMod"),
         healAndShieldPower |-> Sum("PercentHealAndShieldPowerMod"),
         manaRegen |-> FlatThenPercent(championBaseStats.manaRegen, 0,
                                       Sum("PercentBaseManaRegenMod"), 1),
         healthRegen |-> FlatThenPercent(championBaseStats.healthRegen, 0,
                                         Sum("PercentBaseHealthRegenMod"), 1)]
  IN  [finalStats |-> Spread(championBaseStats, computed),
       totalRuneStats |-> runes]

-----------------------------------------------------------------------------
(* combatFormulas.js *)

(* A variant that leaves the resistance out: every hit lands unmitigated. *)
calculateDamageMultiplier_Unmitigated(resistanceValue) == <<1, 1>>

(* A variant with the reciprocal form on both sides of zero:               *)
(* 100 / (100 + r) for every r.                                            *)
calculateDamageMultiplier_Reciprocal(resistanceValue) ==
  <<100000, 100000 + resistanceValue>>

(* The multiplier as the ratio <<numerator, denominator>>:                 *)
(* 100 / (100 + r) for r >= 0, and 2 - 100 / (100 - r) otherwise.          *)
calculateDamageMultiplier(resistanceValue) ==
  IF resistanceValue >= 0
  THEN <<100000, 100000 + resistanceValue>>
  ELSE <<100000 - 2 * resistanceValue, 100000 - resistanceValue>>

(* A variant that stops at zero *)
calculateEffectiveArmor_Clamped(targetBaseArmor, attackerPercentArmorPen, attackerFlatArmorPen) ==
  LET ea == MulDivRound(targetBaseArmor, 10000 - attackerPercentArmorPen, 10000)
              - attackerFlatArmorPen
  IN  IF ea < 0 THEN 0 ELSE ea

calculateEffectiveArmor(targetBaseArmor, attackerPercentArmorPen, attackerFlatArmorPen) ==
  MulDivRound(targetBaseArmor, 10000 - attackerPercentArmorPen, 10000)
    - attackerFlatArmorPen

(* 1.75 + bonusCritDamagePercent, in ten-thousandths *)
getCritDamageMultiplier(bonusCritDamagePercent) == 17500 + bonusCritDamagePercent

(* A variant without the guard: 1 / finalAttackSpeed for every value, so a *)
(* negative attack speed gives a negative timer.                           *)
calculateAttackTimer_NoGuard(finalAttackSpeed) ==
  IF ~IsNum(finalAttackSpeed) THEN NaN
  ELSE IF finalAttackSpeed.v = 0 THEN Infinity
       ELSE Num(Sgn(finalAttackSpeed.v) * MulDivRound(1000000, 1000, Abs(finalAttackSpeed.v)))

(* Seconds between attacks, in millionths.  NaN <= 0 is false and 1 / NaN  *)
(* is NaN.                                                                 *)
calculateAttackTimer(finalAttackSpeed) ==
  IF ~IsNum(finalAttackSpeed) THEN NaN
  ELSE IF finalAttackSpeed.v <= 0 THEN Infinity
       ELSE Num(MulDivRound(1000000, 1000, finalAttackSpeed.v))

(* A variant whose efficiency is 0.6 at level 1 and 1 at level 18:        *)
(* lethality * (0.6 + 0.4 * (clamp(level, 1, 18) - 1) / 17)                *)
convertLethalityToFlatPen_SixtyAtOne(lethalityValue, attackerLevel) ==
  LET lvl == IF attackerLevel.v < 10 THEN 10
             ELSE IF attackerLevel.v > 180 THEN 180 ELSE attackerLevel.v
  IN  MulDivRound(lethalityValue, 1020 + 4 * (lvl - 10), 1700)

(* lethality * (0.6 + 0.4 * clamp(level, 1, 18) / 18), level in tenths *)
convertLethalityToFlatPen(lethalityValue, attackerLevel) ==
  LET lvl == IF attackerLevel.v < 10 THEN 10
             ELSE IF attackerLevel.v > 180 THEN 180 ELSE attackerLevel.v
  IN  MulDivRound(lethalityValue, 1080 + 4 * lvl, 1800)

-----------------------------------------------------------------------------
(* target.js *)

StandardizedTargetV1 ==
  [name |-> "Standardized Target Dummy V1",
   stats |-> [hp |-> 10000000, armor |-> 100000, magicResist |-> 100000]]

-----------------------------------------------------------------------------
(* simulation.js: runAutoAttackSimulation, and its callers *)

MaxRuns == 2      \* calls of runAutoAttackSimulation pending at the same time

DefaultMaxSimulationTime == 60

Seconds(n) == Num(n * 1000000)

Input(championId, championLevel, itemIds, runeIds, maxSimulationTimeInSeconds) ==
  [championId |-> championId, championLevel |-> championLevel,
   itemIds |-> itemIds, runeIds |-> runeIds,
   maxSimulationTimeInSeconds |-> maxSimulationTimeInSeconds]

(* The simulationInput objects that callers inside the process pass *)
SimulationInputs ==
  {Input("Duelist", Num(10), << >>, << >>, Seconds(120)),
   Input("Duelist", Num(10), << >>, << >>, Seconds(0)),
   Input("Duelist", Str(50), << >>, << >>, Seconds(5)),
   Input("Duelist", Num(190), << >>, << >>, undefined),
   Input("Duelist", Num(0), << >>, << >>, undefined),
   Input("Crusher", Num(10), << >>, << >>, Seconds(4)),
   Input("Crusher", Num(10), <<"cloak">>, << >>, undefined),
   Input("Statue", Num(10), << >>, << >>, Seconds(5)),
   Input("Statue", Num(10), <<"hammer">>, << >>, undefined),
   Input("Ahri", Num(110), <<"boots", "sword">>,
         <<IdNumber(5008), IdNumber(5005), IdNumber(8112)>>, Seconds(10))}

(* The request bodies of POST /api/csu/simulate *)
Body(championId, championLevel, itemIds, runeIds) ==
  [championId |-> championId, championLevel |-> championLevel,
   itemIds |-> itemIds, runeIds |-> runeIds]

RequestBodies ==
  {Body("Duelist", Num(10), << >>, << >>),
   Body("Duelist", Num(10), <<"frost">>, << >>),
   Body("Duelist", Num(10), <<"frost", "frost">>, << >>),
   Body("Colossus", Num(10), <<"spear">>, << >>),
   Body("Crusher", Num(15), <<"dirk">>, << >>),
   Body("Crusher", Num(10), << >>, <<IdNumber(5008), IdString(5005)>>),
   Body("Reaper", Num(10), <<"edge">>, << >>),
   Body("Duelist", Num(0), << >>, << >>),
   Body("Duelist", Num(190), << >>, << >>),
   Body("Duelist", Num(990), << >>, << >>),
   Body("Duelist", Str(50), << >>, << >>),
   Body("Duelist", undefined, << >>, << >>),
   Body("Nobody", Num(10), << >>, << >>),
   Body("constructor", Num(10), << >>, << >>),
   Body("", Num(10), << >>, << >>)}

(* String(id) *)
ToIdString(id) == IdString(id.v)
MapString(runeIds) == [i \in DOMAIN runeIds |-> ToIdString(runeIds[i])]

(* The state of no call executing *)
NoRun ==
  [pc |-> "none", via |-> "", input |-> Input("", undefined, << >>, << >>, undefined),
   target |-> "", initialTargetHealth |-> 0, currentTime |-> Num(0), totalDamageDealt |-> 0, attackCount |-> 0,
   attackTimer |-> Num(0), finalChampionStats |-> EmptyMap,
   maxSimulationTimeInSeconds |-> Num(0), result |-> EmptyMap,
   status |-> 0, error |-> NoError]

(* error.message includes "not found" or "invalid", case-insensitively *)
IsNotFoundOrInvalid(message) == message \in {ErrNotFound, ErrInvalidLevel}

(* The call throws: its promise rejects; the endpoint's catch answers 404   *)
(* or 500.                                                                 *)
Threw(via, input, message) ==
  [NoRun EXCEPT !.pc = "threw", !.via = via, !.input = input, !.error = message,
                !.status = IF via = "api"
                           THEN IF IsNotFoundOrInvalid(message) THEN 404 ELSE 500
                           ELSE 0]

(* x > 0 for a JavaScript number x *)
Positive(x) == IsNum(x) /\ x.v > 0

(* (a / x).toFixed(2) for a finite a in thousandths and x in millionths *)
Divide(a, x) ==
  IF x.k = "Infinity" THEN Num(0)
  ELSE IF ~IsNum(x) THEN NaN
       ELSE IF x.v = 0 THEN (IF a = 0 THEN NaN ELSE Infinity)
            ELSE Num(MulDivRound(a * Sgn(x.v), 100000, Abs(x.v)) * 10)

(* a + x for JavaScript numbers *)
Plus(a, x) == IF IsNum(a) /\ IsNum(x) THEN Num(a.v + x.v)
              ELSE IF a.k = "NaN" \/ x.k = "NaN" THEN NaN ELSE Infinity

(* a < b for JavaScript numbers, b finite *)
Less(a, b) == IsNum(a) /\ a.v < b.v

(* Line 35: the default of the destructuring applies to undefined only *)
MaxSimulationTime(input) ==
  IF input.maxSimulationTimeInSeconds.k = "undefined"
  THEN Seconds(DefaultMaxSimulationTime)
  ELSE input.maxSimulationTimeInSeconds

(* Lines 69-73: a copy of the template and of its stats.  The heap after   *)
(* the allocation, and the address of the new stats object.                *)
TargetSetup(h) ==
  [heap |-> [a \in (DOMAIN h) \cup {"target"} |-> h["template"]],
   stats |-> "target"]

(* Lines 82-93 *)
CannotAttackResult(finalChampionStats, targetHp) ==
  [ttk |-> null, dps |-> Num(0), totalDamageDealt |-> 0, attackCount |-> 0,
   finalChampionStats |-> finalChampionStats,
   targetInitialHealth |-> undefined,           \* the object has no such property
   targetFinalHealth |-> targetHp,
   simulationTimeTaken |-> Num(0),
   remarks |-> "Champion cannot attack (zero or invalid attack speed)."]

(* Line 96 *)
LoopCondition(r, h) ==
  h[r.target].hp > 0 /\ Less(r.currentTime, r.maxSimulationTimeInSeconds)

(* Lines 98-118, in thousandths *)
DamageThisHit(finalChampionStats, championLevel, targetArmor, isCrit) ==
  LET baseADForAttack == finalChampionStats.ad
      damageBeforeMitigation ==
        IF isCrit
        THEN MulDivRound(baseADForAttack,
               getCritDamageMultiplier(finalChampionStats.bonusCritDamagePercent), 10000)
        ELSE baseADForAttack
      flatPenFromLethality ==
        convertLethalityToFlatPen(finalChampionStats.lethality, championLevel)
      totalFlatArmorPen == Get(finalChampionStats, "flatArmorPen") + flatPenFromLethality
      effectiveArmor == calculateEffectiveArmor(targetArmor,
                          finalChampionStats.percentArmorPen, totalFlatArmorPen)
      damageMultiplier == calculateDamageMultiplier(effectiveArmor)
  IN  MulDivRound(damageBeforeMitigation, damageMultiplier[1], damageMultiplier[2])

(* Math.random() < critChance, for Math.random() in [0, 1) *)
CritOutcomes(critChance) ==
  IF critChance <= 0 THEN {FALSE}
  ELSE IF critChance >= 10000 THEN {TRUE} ELSE {TRUE, FALSE}

(* A variant that takes the accumulated time also when the loop ran out   *)
(* of time.                                                                *)
SimulationTimeTaken_Accumulated(r, hp) == r.currentTime

(* Line 152 *)
SimulationTimeTaken(r, hp) ==
  IF hp <= 0 THEN r.currentTime ELSE r.maxSimulationTimeInSeconds

(* Lines 156-157 *)
Dps(totalDamageDealt, attackCount, attackTimer, simulationTimeTaken) ==
  LET dpsCalculationTime ==
        IF Positive(simulationTimeTaken) THEN simulationTimeTaken
        ELSE IF attackCount > 0 THEN attackTimer ELSE Num(0)
  IN  IF Positive(dpsCalculationTime) THEN Divide(totalDamageDealt, dpsCalculationTime)
      ELSE IF totalDamageDealt > 0 THEN Divide(totalDamageDealt, attackTimer)
           ELSE Num(0)

(* x.toFixed(3) of a time *)
ToFixedTime(x) == IF IsNum(x) THEN Num(ToFixed(x.v, 1000)) ELSE x

(* Lines 152-170 *)
SimulationResult(r, hp) ==
  LET simulationTimeTaken == SimulationTimeTaken(r, hp)
  IN  [ttk |-> IF hp <= 0 THEN simulationTimeTaken ELSE null,
       dps |-> Dps(r.totalDamageDealt, r.attackCount, r.attackTimer, simulationTimeTaken),
       totalDamageDealt |-> ToFixed(r.totalDamageDealt, 10),
       attackCount |-> r.attackCount,
       finalChampionStats |-> r.finalChampionStats,
       targetInitialHealth |-> Num(r.initialTargetHealth),
       targetFinalHealth |-> ToFixed(hp, 10),
       simulationTimeTaken |-> ToFixedTime(simulationTimeTaken),
       remarks |-> IF hp <= 0 THEN "Target eliminated."
                   ELSE "Max simulation time reached."]

-----------------------------------------------------------------------------
(* Actions.  JavaScript runs one piece of synchronous code at a time: a    *)
(* request handler up to its first await, or a continuation from one await *)
(* to the next or to the return.  "run" is that piece of code; the calls   *)
(* in "pending" wait for the promise they await.                           *)

Suspended(via, input, pc) == [via |-> via, input |-> input, pc |-> pc]

Idle == run.pc = "none" /\ BagCardinality(pending) < MaxRuns

(* Lines 38-44: the call up to "await getRawChampionData(championId)" *)
Call(via, input) ==
  IF input.championId = "" \/ Falsy(input.championLevel)
  THEN /\ run' = Threw(via, input, ErrRequired)
       /\ UNCHANGED pending
  ELSE /\ pending' = pending (+) SetToBag({Suspended(via, input, "lookup")})
       /\ UNCHANGED run

(* app.js lines 72-107: POST /api/csu/simulate up to the await of the run *)
ApiSimulate ==
  \E body \in RequestBodies :
    /\ Idle
    /\ IF \/ body.championId = ""
          \/ body.championLevel.k # "num"
          \/ body.championLevel.v < 10
          \/ body.championLevel.v > 180
       THEN /\ run' = [NoRun EXCEPT !.pc = "rejected", !.via = "api", !.status = 400,
                                    !.input = Input(body.championId, body.championLevel,
                                                    body.itemIds, body.runeIds, undefined)]
            /\ UNCHANGED pending
       ELSE Call("api", Input(body.championId, body.championLevel, body.itemIds,
                              MapString(body.runeIds), undefined))
    /\ UNCHANGED <<heap, rsv, fcall, mcp, store, sse>>

(* A call of runAutoAttackSimulation from code in the process *)
DirectCall ==
  \E input \in SimulationInputs :
    /\ Idle
    /\ Call("direct", input)
    /\ UNCHANGED <<heap, rsv, fcall, mcp, store, sse>>

(* Lines 45-63: the champion data arrived; up to "await aggregateItemStats" *)
Lookup ==
  \E c \in BagToSet(pending) :
    /\ run.pc = "none"
    /\ c.pc = "lookup"
    /\ LET rawChampionInfo == getRawChampionData(c.input.championId)
           champion == Champion(c.input.championId, c.input.championLevel, rawChampionInfo)
       IN  IF ~rawChampionInfo.found
           THEN /\ run' = Threw(c.via, c.input, ErrNotFound)
                /\ pending' = pending (-) SetToBag({c})
           ELSE IF champion.threw # NoError
                THEN /\ run' = Threw(c.via, c.input, champion.threw)
                     /\ pending' = pending (-) SetToBag({c})
                ELSE IF getBaseStatsAtLevelThrows(champion)
                THEN /\ run' = Threw(c.via, c.input, ErrTypeError)
                     /\ pending' = pending (-) SetToBag({c})
                ELSE /\ pending' = (pending (-) SetToBag({c}))
                                     (+) SetToBag({Suspended(c.via, c.input, "aggregate")})
                     /\ UNCHANGED run
    /\ UNCHANGED <<heap, rsv, fcall, mcp, store, sse>>

(* Lines 64-93: the aggregates arrived; final stats, target, attack timer *)
Setup ==
  \E c \in BagToSet(pending) :
    /\ run.pc = "none"
    /\ c.pc = "aggregate"
    /\ LET rawChampionInfo == getRawChampionData(c.input.championId)
           champion == Champion(c.input.championId, c.input.championLevel, rawChampionInfo)
           championBaseStats == getBaseStatsAtLevel(champion)
           totalItemStats == aggregateItemStats(c.input.itemIds)
           totalRuneStats == aggregateRuneStats(c.input.runeIds)
           finalChampionStats ==
             calculateFinalChampionStats(championBaseStats, totalItemStats,
                                         totalRuneStats).finalStats
           target == TargetSetup(heap)
           initialTargetHealth == target.heap[target.stats].hp
           attackTimer == calculateAttackTimer(finalChampionStats.attackSpeed)
           started == [NoRun EXCEPT !.via = c.via, !.input = c.input,
                                    !.target = target.stats,
                                    !.initialTargetHealth = initialTargetHealth,
                                    !.attackTimer = attackTimer,
                                    !.finalChampionStats = finalChampionStats,
                                    !.maxSimulationTimeInSeconds = MaxSimulationTime(c.input)]
       IN  /\ heap' = target.heap
           /\ pending' = pending (-) SetToBag({c})
           /\ IF attackTimer.k = "Infinity"
              THEN run' = [started EXCEPT !.pc = "returned", !.status = IF c.via = "api" THEN 200 ELSE 0,
                             !.result = CannotAttackResult(finalChampionStats,
                                                           target.heap[target.stats].hp)]
              ELSE run' = [started EXCEPT !.pc = "attacking"]
    /\ UNCHANGED <<rsv, fcall, mcp, store, sse>>

(* A variant of the pass without the clamp of lines 125-126 *)
Attack_NoClamp ==
  /\ run.pc = "attacking"
  /\ LoopCondition(run, heap)
  /\ \E isCrit \in CritOutcomes(run.finalChampionStats.critChance) :
       LET damageThisHit == DamageThisHit(run.finalChampionStats, run.input.championLevel,
                                          heap[run.target].armor, isCrit)
           hp == heap[run.target].hp - damageThisHit
       IN  /\ heap' = [heap EXCEPT ![run.target].hp = hp]
           /\ run' = [run EXCEPT !.totalDamageDealt = @ + damageThisHit,
                                 !.attackCount = @ + 1,
                                 !.currentTime = IF hp <= 0 THEN @
                                                 ELSE Plus(@, run.attackTimer)]
  /\ UNCHANGED <<pending, rsv, fcall, mcp, store, sse>>

(* A variant of the pass that counts the attack only if the target lives *)
Attack_CountSurvived ==
  /\ run.pc = "attacking"
  /\ LoopCondition(run, heap)
  /\ \E isCrit \in CritOutcomes(run.finalChampionStats.critChance) :
       LET damageThisHit == DamageThisHit(run.finalChampionStats, run.input.championLevel,
                                          heap[run.target].armor, isCrit)
           hp == heap[run.target].hp - damageThisHit
       IN  /\ heap' = [heap EXCEPT ![run.target].hp = IF hp <= 0 THEN 0 ELSE hp]
           /\ run' = [run EXCEPT !.totalDamageDealt = @ + damageThisHit,
                                 !.attackCount = IF hp <= 0 THEN @ ELSE @ + 1,
                                 !.currentTime = IF hp <= 0 THEN @
                                                 ELSE Plus(@, run.attackTimer)]
  /\ UNCHANGED <<pending, rsv, fcall, mcp, store, sse>>

(* A variant of the pass that advances the time before the check of the   *)
(* target's health                                                         *)
Attack_AdvanceFirst ==
  /\ run.pc = "attacking"
  /\ LoopCondition(run, heap)
  /\ \E isCrit \in CritOutcomes(run.finalChampionStats.critChance) :
       LET damageThisHit == DamageThisHit(run.finalChampionStats, run.input.championLevel,
                                          heap[run.target].armor, isCrit)
           hp == heap[run.target].hp - damageThisHit
       IN  /\ heap' = [heap EXCEPT ![run.target].hp = IF hp <= 0 THEN 0 ELSE hp]
           /\ run' = [run EXCEPT !.totalDamageDealt = @ + damageThisHit,
                                 !.attackCount = @ + 1,
                                 !.currentTime = Plus(@, run.attackTimer)]
  /\ UNCHANGED <<pending, rsv, fcall, mcp, store, sse>>

(* Lines 96-147: one pass of the loop *)
Attack ==
  /\ run.pc = "attacking"
  /\ LoopCondition(run, heap)
  /\ \E isCrit \in CritOutcomes(run.finalChampionStats.critChance) :
       LET damageThisHit == DamageThisHit(run.finalChampionStats, run.input.championLevel,
                                          heap[run.target].armor, isCrit)
           hp == heap[run.target].hp - damageThisHit
       IN  /\ heap' = [heap EXCEPT ![run.target].hp = IF hp <= 0 THEN 0 ELSE hp]
           /\ run' = [run EXCEPT !.totalDamageDealt = @ + damageThisHit,
                                 !.attackCount = @ + 1,
                                 !.currentTime = IF hp <= 0 THEN @
                                                 ELSE Plus(@, run.attackTimer)]
  /\ UNCHANGED <<pending, rsv, fcall, mcp, store, sse>>

(* Lines 149-170: the loop is left; the result *)
Finish ==
  /\ run.pc = "attacking"
  /\ ~LoopCondition(run, heap)
  /\ run' = [run EXCEPT !.pc = "returned",
                        !.status = IF run.via = "api" THEN 200 ELSE 0,
                        !.result = SimulationResult(run, heap[run.target].hp)]
  /\ UNCHANGED <<heap, pending, rsv, fcall, mcp, store, sse>>

(* The caller has the outcome (the response is sent); the call's objects   *)
(* are garbage.                                                            *)
Return ==
  /\ run.pc \in {"returned", "threw", "rejected"}
  /\ run' = NoRun
  /\ heap' = [a \in {"template"} |-> heap[a]]
  /\ UNCHANGED <<pending, rsv, fcall, mcp, store, sse>>

NoCaller == [calls |-> 0]
NoCall == [fn |-> ""]
NoMcp == [calls |-> 0]
NoStore == [kind |-> ""]
NoSse == [posts |-> 0]

Init ==
  /\ heap = [a \in {"template"} |-> StandardizedTargetV1.stats]
  /\ pending = EmptyBag
  /\ run = NoRun
  /\ rsv = NoCaller
  /\ fcall = NoCall
  /\ mcp = NoMcp
  /\ store = NoStore
  /\ sse = NoSse

Next ==
  \/ ApiSimulate
  \/ DirectCall
  \/ Lookup
  \/ Setup
  \/ Attack
  \/ Finish
  \/ Return

Spec == Init /\ [][Next]_vars

(* The synchronous loop runs to completion: nothing preempts it. *)
FairSpec == Spec /\ WF_vars(Attack) /\ WF_vars(Finish)

-----------------------------------------------------------------------------
(* calculateFinalChampionStats called repeatedly by a caller that keeps    *)
(* the same base stats and the same two modifier maps.                     *)

MaxCalls == 3     \* calls made with the same objects

ResolveLevels == {1, 2, 18}
ResolveItemLists == {<< >>, <<"sword">>, <<"boots", "cloak">>, <<"dirk", "sword">>}
ResolveRuneLists == {<< >>, <<IdNumber(5008)>>, <<IdNumber(5005), IdNumber(5002)>>,
                     <<IdNumber(5008), IdNumber(5008), IdNumber(5005)>>}

(* A base-stats object written by hand, as the resolver's tests pass it:   *)
(* sampleBaseStats with the given ability power.                           *)
sampleBaseStats(ap) ==
  [hp |-> 600000, mp |-> 300000, ad |-> 60000, ap |-> ap, armor |-> 30000,
   magicResist |-> 30000, attackSpeed |-> 625, baseAttackSpeedValue |-> 625,
   attackSpeedGrowthPercentage |-> 2000, critChance |-> 0,
   bonusCritDamagePercent |-> 0, moveSpeed |-> 325000, abilityHaste |-> 0,
   cooldownReduction |-> 0, lethality |-> 0, flatMagicPen |-> 0,
   percentArmorPen |-> 0, percentMagicPen |-> 0, healAndShieldPower |-> 0,
   manaRegen |-> 8000, healthRegen |-> 5000, level |-> 1]

(* A modifier map written by hand: one or two keys *)
Map1(k, v) == [j \in {k} |-> v]
Map2(k1, v1, k2, v2) == [j \in {k1, k2} |-> IF j = k1 THEN v1 ELSE v2]

ResolveBaseStats ==
  {getBaseStatsAtLevel(Champion(championId, Num(level * 10),
                                getRawChampionData(championId))) :
     championId \in DOMAIN ChampionsJson, level \in ResolveLevels}
  \cup {sampleBaseStats(ap) : ap \in {0, 50000, 60000}}

ResolveItemMaps ==
  {aggregateItemStats(itemIds) : itemIds \in ResolveItemLists}
  \cup {Map2("FlatAttackDamageMod", 25000, "FlatHealthMod", 180000),
        Map2("FlatArmorMod", 20000, "FlatAbilityPowerMod", 30000),
        Map2("PercentHealthMod", 1500, "PercentAbilityPowerMod", 3500),
        Map1("PercentAttackSpeedMod", 1000),
        Map1("PercentAttackSpeedMod", 20000),
        Map1("AdaptiveForce", 10000)}

ResolveRuneMaps ==
  {aggregateRuneStats(runeIds) : runeIds \in ResolveRuneLists}
  \cup {Map1("PercentAttackSpeedMod", 1000),
        Map2("AdaptiveForce", 9000, "FlatMagicResistMod", 8000)}

Caller(championBaseStats, totalItemStats, totalRuneStats) ==
  [calls |-> 0,
   championBaseStats |-> championBaseStats,
   totalItemStats |-> totalItemStats,
   totalRuneStats |-> totalRuneStats,
   givenItemStats |-> totalItemStats,      \* the maps as first passed
   givenRuneStats |-> totalRuneStats,
   enteredRuneStats |-> totalRuneStats,    \* the rune map as the latest call got it
   firstStats |-> EmptyMap,                \* what the first call returned
   finalStats |-> EmptyMap]                \* what the latest call returned

InitResolve ==
  /\ heap = [a \in {"template"} |-> StandardizedTargetV1.stats]
  /\ pending = EmptyBag
  /\ run = NoRun
  /\ fcall = NoCall
  /\ mcp = NoMcp
  /\ store = NoStore
  /\ sse = NoSse
  /\ \E championBaseStats \in ResolveBaseStats, totalItemStats \in ResolveItemMaps,
        totalRuneStats \in ResolveRuneMaps :
       rsv = Caller(championBaseStats, totalItemStats, totalRuneStats)

(* One call; the rune map object is the caller's, so what the call writes  *)
(* into it stays.                                                          *)
CallResolve ==
  /\ rsv.calls < MaxCalls
  /\ LET r == calculateFinalChampionStats(rsv.championBaseStats, rsv.totalItemStats,
                                          rsv.totalRuneStats)
     IN  rsv' = [rsv EXCEPT !.calls = @ + 1,
                            !.totalRuneStats = r.totalRuneStats,
                            !.enteredRuneStats = rsv.totalRuneStats,
                            !.finalStats = r.finalStats,
                            !.firstStats = IF rsv.calls = 0 THEN r.finalStats ELSE @]
  /\ UNCHANGED <<heap, pending, run, fcall, mcp, store, sse>>

NextResolve == CallResolve

SpecResolve == InitResolve /\ [][NextResolve]_vars

-----------------------------------------------------------------------------
(* The aggregation functions and the damage multiplier, called on their    *)
(* own                                                                     *)

MaxSources == 3
MaxResistance == 150

(* Ids a caller may pass: ids of items.json and ids it does not have *)
CallItemIds == {"sword", "dirk", "boots", "cloak", "0000"}

(* Ids of runes.json (three stat shards and a keystone), an id it does not *)
(* have, and the string form of a shard's id                               *)
CallRuneIds == {IdNumber(5008), IdNumber(5005), IdNumber(5002), IdNumber(8112),
                IdNumber(0), IdString(5008)}

SeqsUpTo(S, n) == UNION {[1..k -> S] : k \in 0..n}

(* Resistances in thousandths, at every whole value of the range *)
CallResistances == {1000 * r : r \in (0 - MaxResistance)..MaxResistance}

(* Lethality amounts in thousandths and attacker levels in tenths: every   *)
(* whole level from -1 to 20, two fractional levels and 99                 *)
CallLethalities == {0, 10000, 18000, 45000}
CallLevels == {10 * l : l \in (0 - 1)..20} \cup {5, 95, 990}

MaxPhrases == 2

(* "+N Stat Name" and "+N% Stat Name" phrases of a description *)
CallPhrases == {Flat(10, "Armor"), Flat(15, "Armor"), Flat(25, "Magic Resistance"),
                Flat(6, "Magic Resist"), Flat(300, "Health"), Pct(20, "Attack Speed")}

LethalityCall(lethalityValue, attackerLevel) ==
  [fn |-> "convertLethalityToFlatPen", lethalityValue |-> lethalityValue,
   attackerLevel |-> attackerLevel, done |-> FALSE, result |-> 0]

ParseCall(fn, descriptionString) ==
  [fn |-> fn, descriptionString |-> descriptionString, done |-> FALSE, result |-> EmptyMap]

(* A call about to be made: the function and its arguments.  loadable      *)
(* tells whether the data file can be read and parsed.                     *)
AggregateCall(fn, ids, loadable) ==
  [fn |-> fn, ids |-> ids, loadable |-> loadable, done |-> FALSE, result |-> EmptyMap]

MultiplierCall(resistanceValue) ==
  [fn |-> "calculateDamageMultiplier", resistanceValue |-> resistanceValue,
   done |-> FALSE, result |-> <<0, 0>>]

InitCalls ==
  /\ heap = [a \in {"template"} |-> StandardizedTargetV1.stats]
  /\ pending = EmptyBag
  /\ run = NoRun
  /\ rsv = NoCaller
  /\ mcp = NoMcp
  /\ store = NoStore
  /\ sse = NoSse
  /\ fcall \in {AggregateCall("aggregateItemStats", ids, loadable) :
                   ids \in SeqsUpTo(CallItemIds, MaxSources), loadable \in BOOLEAN}
              \cup {AggregateCall("aggregateRuneStats", ids, loadable) :
                      ids \in SeqsUpTo(CallRuneIds, MaxSources), loadable \in BOOLEAN}
              \cup {MultiplierCall(r) : r \in CallResistances}
              \cup {LethalityCall(n, Num(l)) : n \in CallLethalities, l \in CallLevels}
              \cup {ParseCall(fn, d) :
                      fn \in {"parseItemStatsFromString", "parseRuneStatsFromString"},
                      d \in SeqsUpTo(CallPhrases, MaxPhrases)}

(* await aggregateItemStats(itemIds, getProcessedItemData, parser).  When  *)
(* items.json cannot be read or parsed, loadRawItemData throws, the lookup *)
(* catches it and returns null for every id.                               *)
CallAggregateItemStats ==
  /\ fcall.fn = "aggregateItemStats" /\ ~fcall.done
  /\ fcall' = [fcall EXCEPT !.done = TRUE,
                            !.result = IF fcall.loadable THEN aggregateItemStats(fcall.ids)
                                       ELSE EmptyMap]
  /\ UNCHANGED <<heap, pending, run, rsv, mcp, store, sse>>

CallAggregateRuneStats ==
  /\ fcall.fn = "aggregateRuneStats" /\ ~fcall.done
  /\ fcall' = [fcall EXCEPT !.done = TRUE,
                            !.result = IF fcall.loadable THEN aggregateRuneStats(fcall.ids)
                                       ELSE EmptyMap]
  /\ UNCHANGED <<heap, pending, run, rsv, mcp, store, sse>>

CallCalculateDamageMultiplier ==
  /\ fcall.fn = "calculateDamageMultiplier" /\ ~fcall.done
  /\ fcall' = [fcall EXCEPT !.done = TRUE,
                            !.result = calculateDamageMultiplier(fcall.resistanceValue)]
  /\ UNCHANGED <<heap, pending, run, rsv, mcp, store, sse>>

CallConvertLethalityToFlatPen ==
  /\ fcall.fn = "convertLethalityToFlatPen" /\ ~fcall.done
  /\ fcall' = [fcall EXCEPT !.done = TRUE,
                            !.result = convertLethalityToFlatPen(fcall.lethalityValue,
                                                                 fcall.attackerLevel)]
  /\ UNCHANGED <<heap, pending, run, rsv, mcp, store, sse>>

CallParseItemStatsFromString ==
  /\ fcall.fn = "parseItemStatsFromString" /\ ~fcall.done
  /\ fcall' = [fcall EXCEPT !.done = TRUE,
                            !.result = parseItemStatsFromString(fcall.descriptionString)]
  /\ UNCHANGED <<heap, pending, run, rsv, mcp, store, sse>>

CallParseRuneStatsFromString ==
  /\ fcall.fn = "parseRuneStatsFromString" /\ ~fcall.done
  /\ fcall' = [fcall EXCEPT !.done = TRUE,
                            !.result = parseRuneStatsFromString(fcall.descriptionString)]
  /\ UNCHANGED <<heap, pending, run, rsv, mcp, store, sse>>

NextCalls ==
  \/ CallAggregateItemStats
  \/ CallAggregateRuneStats
  \/ CallCalculateDamageMultiplier
  \/ CallConvertLethalityToFlatPen
  \/ CallParseItemStatsFromString
  \/ CallParseRuneStatsFromString

SpecCalls == InitCalls /\ [][NextCalls]_vars

-----------------------------------------------------------------------------
(* server.js: the three tools, the remote game-data service and the local  *)
(* data files                                                              *)

MaxToolCalls == 3

(* Champion keys of the remote champion.json and of data/champions.json *)
RemoteChampions == {"Ahri", "Yasuo"}
LocalChampions == {"Ahri"}
ChampionNames == {"Ahri", "Yasuo", "Nobody"}

(* The outcomes of the axios.get calls a tool call may issue, in order *)
NetOutcomes == [1..4 -> BOOLEAN]

(* A versions.json request followed, if it succeeded, by a data request:   *)
(* whether both succeeded, and how many were issued                        *)
BothSucceed(net, i) == net[i] /\ net[i + 1]
Issued(net, i) == IF net[i] THEN 2 ELSE 1

NoCachedChampions == [from |-> "", full |-> {}]

(* A variant whose catch block reports the failure instead of reading the  *)
(* local file                                                              *)
loadItems_NoFallback(m, net) ==
  IF m.cachedItems # "" THEN [threw |-> FALSE, cachedItems |-> m.cachedItems, requests |-> 0]
  ELSE IF BothSucceed(net, 1)
       THEN [threw |-> FALSE, cachedItems |-> "remote", requests |-> 2]
       ELSE [threw |-> TRUE, cachedItems |-> "", requests |-> Issued(net, 1)]

(* loadItems: the cache, else the remote item.json, else data/items.json *)
loadItems(m, net) ==
  IF m.cachedItems # "" THEN [threw |-> FALSE, cachedItems |-> m.cachedItems, requests |-> 0]
  ELSE IF BothSucceed(net, 1)
       THEN [threw |-> FALSE, cachedItems |-> "remote", requests |-> 2]
       ELSE IF m.localReadable
            THEN [threw |-> FALSE, cachedItems |-> "local", requests |-> Issued(net, 1)]
            ELSE [threw |-> TRUE, cachedItems |-> "", requests |-> Issued(net, 1)]

(* Lines 12-30 of loadChampion: the list of champions *)
loadChampionList(m, net) ==
  IF m.cachedChampions.from # ""
  THEN [threw |-> FALSE, from |-> m.cachedChampions.from, requests |-> 0]
  ELSE IF BothSucceed(net, 1)
       THEN [threw |-> FALSE, from |-> "remote", requests |-> 2]
       ELSE IF m.localReadable
            THEN [threw |-> FALSE, from |-> "local", requests |-> Issued(net, 1)]
            ELSE [threw |-> TRUE, from |-> "", requests |-> Issued(net, 1)]

(* loadChampion: the list, the key of the name, and the champion's details *)
(* unless the cached entry has its spells                                  *)
loadChampion(m, championName, net) ==
  LET list == loadChampionList(m, net)
      keys == IF list.from = "remote" THEN RemoteChampions ELSE LocalChampions
      next == list.requests + 1
      cached == [from |-> list.from, full |-> m.cachedChampions.full]
  IN  IF list.threw
      THEN [threw |-> TRUE, found |-> FALSE, spells |-> FALSE,
            cachedChampions |-> m.cachedChampions, requests |-> list.requests]
      ELSE IF championName \notin keys
      THEN [threw |-> FALSE, found |-> FALSE, spells |-> FALSE,
            cachedChampions |-> cached, requests |-> list.requests]
      ELSE IF championName \in cached.full
      THEN [threw |-> FALSE, found |-> TRUE, spells |-> TRUE,
            cachedChampions |-> cached, requests |-> list.requests]
      ELSE IF BothSucceed(net, next)
      THEN [threw |-> FALSE, found |-> TRUE, spells |-> TRUE,
            cachedChampions |-> [cached EXCEPT !.full = @ \cup {championName}],
            requests |-> list.requests + 2]
      ELSE [threw |-> FALSE, found |-> TRUE, spells |-> FALSE,
            cachedChampions |-> cached, requests |-> list.requests + Issued(net, next)]

(* What a tool call returned: isError, where its data came from, and how   *)
(* many remote requests it issued.  repeat: an identical request had been  *)
(* answered successfully from remote data before.                          *)
ToolResult(m, tool, championName, isError, from, requests) ==
  [tool |-> tool, championName |-> championName, isError |-> isError, from |-> from,
   requests |-> requests, repeat |-> <<tool, championName>> \in m.answered]

Answered(m, tool, championName, isError, from) ==
  IF ~isError /\ from = "remote" THEN m.answered \cup {<<tool, championName>>}
  ELSE m.answered

(* The outcomes the network allows: none succeeds when it is down *)
Allowed(net) == mcp.offline => \A i \in DOMAIN net : ~net[i]

InitServer ==
  /\ heap = [a \in {"template"} |-> StandardizedTargetV1.stats]
  /\ pending = EmptyBag
  /\ run = NoRun
  /\ rsv = NoCaller
  /\ fcall = NoCall
  /\ store = NoStore
  /\ sse = NoSse
  /\ \E riotApiKey \in BOOLEAN, offline \in BOOLEAN, localReadable \in BOOLEAN :
       mcp = [calls |-> 0, riotApiKey |-> riotApiKey, offline |-> offline,
              localReadable |-> localReadable,
              cachedChampions |-> NoCachedChampions, cachedItems |-> "",
              answered |-> {},
              last |-> ToolResult([answered |-> {}], "", "", FALSE, "", 0)]

(* The handler of get_champion_stats *)
GetChampionStats ==
  /\ mcp.calls < MaxToolCalls
  /\ \E championName \in ChampionNames, net \in NetOutcomes :
       /\ Allowed(net)
       /\ IF ~mcp.riotApiKey
          THEN mcp' = [mcp EXCEPT !.calls = @ + 1,
                         !.last = ToolResult(mcp, "get_champion_stats", championName,
                                             TRUE, "", 0)]
          ELSE LET r == loadChampion(mcp, championName, net)
                   isError == r.threw \/ ~r.found
               IN  mcp' = [mcp EXCEPT
                             !.calls = @ + 1,
                             !.cachedChampions = r.cachedChampions,
                             !.answered = Answered(mcp, "get_champion_stats", championName,
                                                   isError, r.cachedChampions.from),
                             !.last = ToolResult(mcp, "get_champion_stats", championName,
                                                 isError,
                                                 IF isError THEN ""
                                                 ELSE r.cachedChampions.from,
                                                 r.requests)]
  /\ UNCHANGED <<heap, pending, run, rsv, fcall, store, sse>>

(* The handler of get_all_items, called without a filter *)
GetAllItems ==
  /\ mcp.calls < MaxToolCalls
  /\ \E net \in NetOutcomes :
       /\ Allowed(net)
       /\ LET r == loadItems(mcp, net)
          IN  mcp' = [mcp EXCEPT
                        !.calls = @ + 1,
                        !.cachedItems = r.cachedItems,
                        !.answered = Answered(mcp, "get_all_items", "", r.threw,
                                              r.cachedItems),
                        !.last = ToolResult(mcp, "get_all_items", "", r.threw,
                                            r.cachedItems, r.requests)]
  /\ UNCHANGED <<heap, pending, run, rsv, fcall, store, sse>>

(* The handler of get_all_runes: the remote runesReforged.json, else       *)
(* data/runes.json                                                         *)
GetAllRunes ==
  /\ mcp.calls < MaxToolCalls
  /\ \E net \in NetOutcomes :
       /\ Allowed(net)
       /\ LET remote == BothSucceed(net, 1)
              isError == ~remote /\ ~mcp.localReadable
              from == IF remote THEN "remote" ELSE IF isError THEN "" ELSE "local"
          IN  mcp' = [mcp EXCEPT
                        !.calls = @ + 1,
                        !.answered = Answered(mcp, "get_all_runes", "", isError, from),
                        !.last = ToolResult(mcp, "get_all_runes", "", isError, from,
                                            Issued(net, 1))]
  /\ UNCHANGED <<heap, pending, run, rsv, fcall, store, sse>>

NextServer ==
  \/ GetChampionStats
  \/ GetAllItems
  \/ GetAllRunes

SpecServer == InitServer /\ [][NextServer]_vars

-----------------------------------------------------------------------------
(* championRawStats.js, items.js, runes.js: the module-level data stores   *)
(* and their lazy loaders, called by concurrent requests                   *)

MaxCallers == 2
MaxStoreCalls == 2

StoreKinds == {"rawChampionDataStore", "rawItemDataStore", "rawRunesDataStore"}

(* The state of the data file: it parses to the expected data, it cannot   *)
(* be read or parsed, or (runes.json) it parses to something that is no    *)
(* array                                                                   *)
FileStates(kind) ==
  IF kind = "rawRunesDataStore" THEN {"ok", "unreadable", "notArray"}
  ELSE {"ok", "unreadable"}

(* Values of a store and of a call: null, the fallback {} or [], and the   *)
(* object of the n-th JSON.parse, written n                                *)
Null == 0
EmptyObject == 0 - 1
EmptyArray == 0 - 2

Fallback(kind) == IF kind = "rawRunesDataStore" THEN EmptyArray ELSE EmptyObject

Callers == 1..MaxCallers

IdleCaller == [pc |-> "idle", calls |-> 0, got |-> Null]

InitStore ==
  /\ heap = [a \in {"template"} |-> StandardizedTargetV1.stats]
  /\ pending = EmptyBag
  /\ run = NoRun
  /\ rsv = NoCaller
  /\ fcall = NoCall
  /\ mcp = NoMcp
  /\ sse = NoSse
  /\ \E kind \in StoreKinds :
       \E file \in FileStates(kind) :
         store = [kind |-> kind, file |-> file, value |-> Null, reads |-> 0,
                  parses |-> 0, callers |-> [c \in Callers |-> IdleCaller]]

(* getAllRaw...Data up to the await in the loader: a truthy store is       *)
(* returned at once, otherwise the read of the file is started             *)
CallGetAllRawData(c) ==
  /\ store.callers[c].pc \in {"idle", "returned"}
  /\ store.callers[c].calls < MaxStoreCalls
  /\ IF store.value # Null
     THEN store' = [store EXCEPT !.callers[c] =
                      [pc |-> "returned", calls |-> @.calls + 1, got |-> store.value]]
     ELSE store' = [store EXCEPT !.reads = @ + 1,
                      !.callers[c] = [pc |-> "reading", calls |-> @.calls + 1, got |-> Null]]
  /\ UNCHANGED <<heap, pending, run, rsv, fcall, mcp, sse>>

(* The loader after its await: the store becomes the parsed data, which is *)
(* returned, or the fallback, and then the wrapper's catch returns null    *)
ReadFileSettles(c) ==
  /\ store.callers[c].pc = "reading"
  /\ IF store.file = "ok"
     THEN store' = [store EXCEPT !.parses = @ + 1, !.value = store.parses + 1,
                      !.callers[c].pc = "returned", !.callers[c].got = store.parses + 1]
     ELSE store' = [store EXCEPT
                      !.parses = IF store.file = "notArray" THEN @ + 1 ELSE @,
                      !.value = Fallback(store.kind),
                      !.callers[c].pc = "returned", !.callers[c].got = Null]
  /\ UNCHANGED <<heap, pending, run, rsv, fcall, mcp, sse>>

NextStore ==
  \/ \E c \in Callers : CallGetAllRawData(c)
  \/ \E c \in Callers : ReadFileSettles(c)

SpecStore == InitStore /\ [][NextStore]_vars

-----------------------------------------------------------------------------
(* app.js: the table of SSE transports, GET /sse and POST /messages       *)

MaxPosts == 2

(* The session ids the transports draw, and the sessionId query values of  *)
(* POST /messages: those, an id no transport has, the name of a member     *)
(* every plain object inherits, and a request without sessionId            *)
SessionIds == {"s1", "s2", "s3"}
QuerySessionIds == SessionIds \cup {"unknown", "undefined"} \cup ObjectPrototypeKeys

NoPost == [sessionId |-> "", outcome |-> "", wasOpen |-> FALSE]

(* sseTransports[sessionId] on the plain object: the transport stored      *)
(* under the key, else an inherited member, else undefined                 *)
TransportOf(table, sessionId) ==
  IF sessionId \in table THEN "transport"
  ELSE IF sessionId \in ObjectPrototypeKeys THEN "inherited"
  ELSE "undefined"

(* What a POST /messages can end in: the transport handles it, status 400, *)
(* or, when calling handlePostMessage throws in the async handler, the     *)
(* error middleware's status 500 or no response at all                     *)
PostOutcomes(transport) ==
  CASE transport = "transport" -> {"handled"}
    [] transport = "inherited" -> {"500", "none"}
    [] OTHER -> {"400"}

InitSse ==
  /\ heap = [a \in {"template"} |-> StandardizedTargetV1.stats]
  /\ pending = EmptyBag
  /\ run = NoRun
  /\ rsv = NoCaller
  /\ fcall = NoCall
  /\ mcp = NoMcp
  /\ store = NoStore
  /\ sse = [posts |-> 0, table |-> {}, opened |-> {}, closed |-> {}, last |-> NoPost]

(* GET /sse: a new transport is stored under its session id *)
GetSse ==
  /\ \E sessionId \in SessionIds \ sse.opened :
       sse' = [sse EXCEPT !.table = @ \cup {sessionId}, !.opened = @ \cup {sessionId}]
  /\ UNCHANGED <<heap, pending, run, rsv, fcall, mcp, store>>

(* res.on('close'): the connection of an open session ends *)
OnClose ==
  /\ \E sessionId \in sse.opened \ sse.closed :
       sse' = [sse EXCEPT !.table = @ \ {sessionId}, !.closed = @ \cup {sessionId}]
  /\ UNCHANGED <<heap, pending, run, rsv, fcall, mcp, store>>

(* POST /messages?sessionId=... *)
PostMessages ==
  /\ sse.posts < MaxPosts
  /\ \E sessionId \in QuerySessionIds :
       \E outcome \in PostOutcomes(TransportOf(sse.table, sessionId)) :
         sse' = [sse EXCEPT !.posts = @ + 1,
                   !.last = [sessionId |-> sessionId, outcome |-> outcome,
                             wasOpen |-> sessionId \in sse.opened \ sse.closed]]
  /\ UNCHANGED <<heap, pending, run, rsv, fcall, mcp, store>>

NextSse ==
  \/ GetSse
  \/ OnClose
  \/ PostMessages

SpecSse == InitSse /\ [][NextSse]_vars

-----------------------------------------------------------------------------
(* Properties *)

Returned     == run.pc = "returned"
Eliminated   == Returned /\ run.result.remarks = "Target eliminated."
TimedOut     == Returned /\ run.result.remarks = "Max simulation time reached."
CannotAttack == Returned /\ run.result.remarks =
                              "Champion cannot attack (zero or invalid attack speed)."
TemplateHp   == StandardizedTargetV1.stats.hp

(* C1: after any number of runs, in any interleaving, the template still   *)
(* has stats.hp = 10000 and every run that returns reports                 *)
(* targetInitialHealth = 10000.                                            *)
C1_TemplateAndInitialHealth ==
  /\ heap["template"].hp = TemplateHp
  /\ Returned => run.result.targetInitialHealth = Num(TemplateHp)

(* C2, as stated: the target's health is never negative when the loop      *)
(* condition is evaluated, the reported targetFinalHealth is never         *)
(* negative, and it is 0 exactly when the target was eliminated.           *)
C2_FinalHealthZeroIffEliminated ==
  /\ run.pc = "attacking" => heap[run.target].hp >= 0
  /\ Returned => /\ run.result.targetFinalHealth >= 0
                 /\ run.result.targetFinalHealth = 0 <=> Eliminated

(* C2, amended: the health is never negative at the loop condition nor in  *)
(* a result; an eliminated target is reported with health 0; a reported    *)
(* health of 0 means the target was eliminated or has less than 0.005      *)
(* health left (the report is rounded to two decimals).                    *)
C2_FinalHealthRounded ==
  /\ run.pc = "attacking" => heap[run.target].hp >= 0
  /\ Returned => /\ run.result.targetFinalHealth >= 0
                 /\ Eliminated => run.result.targetFinalHealth = 0
                 /\ run.result.targetFinalHealth = 0 =>
                      \/ Eliminated
                      \/ heap[run.target].hp > 0 /\ heap[run.target].hp < 5

(* A run that ran out of time with a remainder that rounds to 0.00 *)
C2_Witness ==
  TimedOut /\ run.result.targetFinalHealth = 0 /\ run.attackCount > 0

(* What ended the run, by the state it ended in *)
EndedDead     == run.attackTimer.k # "Infinity" /\ heap[run.target].hp <= 0
EndedOutOfTime ==
  /\ run.attackTimer.k # "Infinity"
  /\ heap[run.target].hp > 0
  /\ ~Less(run.currentTime, run.maxSimulationTimeInSeconds)
EndedUnable   == run.attackTimer.k = "Infinity" /\ run.attackCount = 0

(* C3: a run with a positive attack interval (and a finite budget) that    *)
(* has entered the loop eventually returns; a returned run is in exactly   *)
(* one of the three outcomes, the one its remarks name; and each pass of   *)
(* the loop adds exactly one to attackCount.                               *)
C3_TerminatesInOneOutcome ==
  /\ [](run.pc = "attacking" /\ Positive(run.attackTimer) => <>Returned)
  /\ [](Returned =>
          /\ Eliminated <=> EndedDead
          /\ TimedOut <=> EndedOutOfTime
          /\ CannotAttack <=> EndedUnable
          /\ Cardinality({b \in {1, 2, 3} :
                            \/ b = 1 /\ EndedDead
                            \/ b = 2 /\ EndedOutOfTime
                            \/ b = 3 /\ EndedUnable}) = 1
          /\ run.result.attackCount = run.attackCount)
  /\ [][run.pc = "attacking" /\ run'.pc = "attacking"
          => run'.attackCount = run.attackCount + 1]_vars

(* A run with a positive interval that looped several times and returned *)
C3_Witness ==
  Returned /\ Positive(run.attackTimer) /\ run.attackCount > 2

(* The final attack speed that the champion, items and runes of an input  *)
(* resolve to, for an input whose champion exists and is constructed.      *)
Resolvable(input) ==
  /\ input.championId # ""
  /\ ~Falsy(input.championLevel)
  /\ getRawChampionData(input.championId).found
  /\ Champion(input.championId, input.championLevel,
              getRawChampionData(input.championId)).threw = NoError
  /\ ~getBaseStatsAtLevelThrows(Champion(input.championId, input.championLevel,
                                         getRawChampionData(input.championId)))

ResolvedAttackSpeed(input) ==
  calculateFinalChampionStats(
    getBaseStatsAtLevel(Champion(input.championId, input.championLevel,
                                 getRawChampionData(input.championId))),
    aggregateItemStats(input.itemIds),
    aggregateRuneStats(input.runeIds)).finalStats.attackSpeed

(* C4: with a final attack speed <= 0 no attack is executed and the run    *)
(* returns (it does not throw) with an infinite interval, ttk = null,      *)
(* dps = 0, totalDamageDealt = 0, attackCount = 0 and the target's health  *)
(* unchanged.                                                              *)
C4_CannotAttack ==
  /\ (run.pc \in {"attacking", "returned"}
        /\ IsNum(run.finalChampionStats.attackSpeed)
        /\ run.finalChampionStats.attackSpeed.v <= 0)
     => /\ Returned
        /\ run.attackTimer = Infinity
        /\ run.result.ttk = null
        /\ run.result.dps = Num(0)
        /\ run.result.totalDamageDealt = 0
        /\ run.result.attackCount = 0
        /\ run.attackCount = 0
        /\ run.result.targetFinalHealth = TemplateHp
        /\ heap[run.target].hp = TemplateHp
  /\ (run.pc = "threw" /\ Resolvable(run.input))
     => ~(IsNum(ResolvedAttackSpeed(run.input)) /\ ResolvedAttackSpeed(run.input).v <= 0)

(* A returned run whose final attack speed is negative *)
C4_Witness ==
  Returned /\ IsNum(run.finalChampionStats.attackSpeed)
           /\ run.finalChampionStats.attackSpeed.v < 0

MaxJs(a, b) ==
  IF a.k = "NaN" \/ b.k = "NaN" THEN NaN
  ELSE IF a.k = "Infinity" \/ b.k = "Infinity" THEN Infinity
       ELSE IF a.v >= b.v THEN a ELSE b

(* C6, as stated: when the run (one with a positive attack interval) ends  *)
(* because the budget is exhausted, ttk is null and                        *)
(* dps = totalDamage / max(currentTime, interval), with currentTime the    *)
(* time accumulated by the loop.                                           *)
C6_DpsOverAccumulatedTime ==
  (TimedOut /\ Positive(run.attackTimer)) =>
    /\ run.result.ttk = null
    /\ run.result.dps =
         Divide(run.totalDamageDealt, MaxJs(run.currentTime, run.attackTimer))

(* C6, amended: when the run ends because a positive budget is exhausted,  *)
(* ttk is null and dps = totalDamage / the configured budget (rounded to   *)
(* two decimals), whatever time the loop accumulated.                      *)
C6_DpsOverBudget ==
  (TimedOut /\ Positive(run.maxSimulationTimeInSeconds)) =>
    /\ run.result.ttk = null
    /\ run.result.dps = Divide(run.totalDamageDealt, run.maxSimulationTimeInSeconds)
    /\ run.result.simulationTimeTaken = ToFixedTime(run.maxSimulationTimeInSeconds)

(* A run out of time whose accumulated time overshot the budget *)
C6_Witness ==
  /\ TimedOut
  /\ run.attackCount > 1
  /\ IsNum(run.currentTime)
  /\ run.currentTime.v > run.maxSimulationTimeInSeconds.v

(* C7: in every run that made at least one attack dps is a finite number   *)
(* obtained with a strictly positive divisor; for a kill by the first      *)
(* attack (ttk = 0) it is totalDamage / attackTimer.                       *)
C7_DpsFinite ==
  (Returned /\ run.attackCount >= 1) =>
    /\ IsNum(run.result.dps)
    /\ run.result.ttk = Num(0) =>
         /\ Positive(run.attackTimer)
         /\ run.result.dps = Divide(run.totalDamageDealt, run.attackTimer)

(* The attacker of C8: final AD 200, attack speed 1.0, crit chance 0, no   *)
(* penetration.                                                            *)
IsAd200As1(stats) ==
  /\ stats.ad = 200000
  /\ stats.attackSpeed = Num(1000)
  /\ stats.critChance = 0
  /\ stats.lethality = 0
  /\ stats.percentArmorPen = 0

(* C8, as stated: a run with the default budget for that attacker ends     *)
(* with the target eliminated and ttk within one interval of 100 seconds.  *)
C8_DefaultBudgetKills ==
  (Returned /\ IsAd200As1(run.finalChampionStats)
            /\ run.input.maxSimulationTimeInSeconds = undefined) =>
    /\ Eliminated
    /\ IsNum(run.result.ttk)
    /\ run.result.ttk.v >= 100000000 - run.attackTimer.v
    /\ run.result.ttk.v <= 100000000 + run.attackTimer.v

(* C8, amended: for that attacker a run with a budget of more than 99      *)
(* seconds ends with the target eliminated by the 100th attack and         *)
(* ttk = 99 s, within one interval of 100 s; a run with the default budget *)
(* (60 s) ends at the time limit after 60 attacks, with ttk = null and     *)
(* 4000 health left.                                                       *)
C8_KillsGivenBudget ==
  (Returned /\ IsAd200As1(run.finalChampionStats)) =>
    /\ run.maxSimulationTimeInSeconds.v > 99000000 =>
         /\ Eliminated
         /\ run.result.attackCount = 100
         /\ run.result.ttk = Num(99000000)
    /\ run.input.maxSimulationTimeInSeconds = undefined =>
         /\ TimedOut
         /\ run.maxSimulationTimeInSeconds = Seconds(DefaultMaxSimulationTime)
         /\ run.result.attackCount = 60
         /\ run.result.ttk = null
         /\ run.result.targetFinalHealth = 4000000

(* That attacker's run with a budget of 120 s, returned *)
C8_Witness ==
  /\ Returned
  /\ IsAd200As1(run.finalChampionStats)
  /\ run.maxSimulationTimeInSeconds = Seconds(120)
  /\ Eliminated

(* An integer level in [1, 18] *)
ValidLevel(level) ==
  level.k = "num" /\ level.v % 10 = 0 /\ level.v >= 10 /\ level.v <= 180

(* C9: a level that is not an integer in [1,18] is rejected before any     *)
(* base stats are derived or any simulation step runs: no call with such a *)
(* level gets past the Champion constructor, and the endpoint answers it   *)
(* with status 400.                                                        *)
C9_InvalidLevelRejected ==
  /\ \A c \in BagToSet(pending) :
       c.pc = "aggregate" => ValidLevel(c.input.championLevel)
  /\ run.pc \in {"attacking", "returned"} => ValidLevel(run.input.championLevel)
  /\ (run.pc # "none" /\ run.via = "api" /\ run.input.championId \in DOMAIN ChampionsJson
        /\ ~ValidLevel(run.input.championLevel))
       => run.status = 400

(* C10: however often calculateFinalChampionStats is called with the same  *)
(* base stats and the same two modifier maps, it returns the same final    *)
(* stats as the first time and leaves both maps as they were given.        *)
C10_ResolveRepeatable ==
  rsv.calls >= 1 =>
    /\ rsv.finalStats = rsv.firstStats
    /\ rsv.totalItemStats = rsv.givenItemStats
    /\ rsv.totalRuneStats = rsv.givenRuneStats

-----------------------------------------------------------------------------
(* Properties of the resolver, stated of the latest call: its arguments    *)
(* are rsv.championBaseStats, rsv.totalItemStats and the rune map as the   *)
(* call got it, rsv.enteredRuneStats; rsv.totalRuneStats is the rune map   *)
(* as the call left it.                                                    *)

Resolved == rsv.calls >= 1
BaseAp == Get(rsv.championBaseStats, "ap")
RuneAdaptive == Get(rsv.enteredRuneStats, "AdaptiveForce")
ItemAdaptive == Get(rsv.totalItemStats, "AdaptiveForce")

(* The flat and percent modifiers of a stat, summed over the item map and  *)
(* the rune map as the call got it.                                        *)
GivenSum(statName) == Get(rsv.totalItemStats, statName) + Get(rsv.enteredRuneStats, statName)

(* (base + flat) * (1 + percent) at the output precision of one decimal *)
OneDecimal(base, flat, percent) == MulDivRound(base + flat, 10000 + percent, 1000000) * 100

(* C11: with AdaptiveForce > 0 and base attack damage equal to base        *)
(* ability power, the adaptive amount goes to flat attack damage.          *)
C11_TieGoesToAttackDamage ==
  (Resolved /\ RuneAdaptive > 0 /\ rsv.championBaseStats.ad = BaseAp)
    => /\ rsv.finalStats.ad =
            OneDecimal(rsv.championBaseStats.ad,
                       GivenSum("FlatAttackDamageMod") + RuneAdaptive,
                       GivenSum("PercentAttackDamageMod"))
       /\ rsv.finalStats.ap =
            OneDecimal(BaseAp, GivenSum("FlatAbilityPowerMod"),
                       GivenSum("PercentAbilityPowerMod"))

(* C12: when the AdaptiveForce of the item map and of the rune map         *)
(* together is positive, the whole of it is in exactly one of the resolved *)
(* attack damage and the resolved ability power.                           *)
C12_AdaptiveRoutedWhole ==
  (Resolved /\ ItemAdaptive + RuneAdaptive > 0)
    => LET af == ItemAdaptive + RuneAdaptive
           Ad(extra) == OneDecimal(rsv.championBaseStats.ad,
                                   GivenSum("FlatAttackDamageMod") + extra,
                                   GivenSum("PercentAttackDamageMod"))
           Ap(extra) == OneDecimal(BaseAp, GivenSum("FlatAbilityPowerMod") + extra,
                                   GivenSum("PercentAbilityPowerMod"))
           toAd == rsv.finalStats.ad = Ad(af) /\ rsv.finalStats.ap = Ap(0)
           toAp == rsv.finalStats.ad = Ad(0) /\ rsv.finalStats.ap = Ap(af)
       IN  (toAd \/ toAp) /\ ~(toAd /\ toAp)

(* The call got no modifiers, and its base stats come from                 *)
(* getBaseStatsAtLevel (they carry the champion's name).                   *)
ResolvedBare ==
  /\ Resolved
  /\ rsv.totalItemStats = EmptyMap
  /\ rsv.enteredRuneStats = EmptyMap
  /\ "name" \in DOMAIN rsv.championBaseStats

LargeStats == {"hp", "mp", "ad", "armor", "magicResist", "moveSpeed"}

(* C13, as stated (for base stats with a non-zero level-1 attack speed):   *)
(* resolving with empty maps returns hp, mp, ad, armor, magicResist,       *)
(* attackSpeed, critChance, moveSpeed, manaRegen and healthRegen with      *)
(* exactly the base value.                                                 *)
C13_EmptyMapsReturnBase ==
  (ResolvedBare /\ rsv.championBaseStats.baseAttackSpeedValue # 0)
    => /\ \A f \in LargeStats \cup {"critChance", "manaRegen", "healthRegen"} :
            rsv.finalStats[f] = rsv.championBaseStats[f]
       /\ rsv.finalStats.attackSpeed = Num(rsv.championBaseStats.attackSpeed)

(* C13, amended: resolving with empty maps returns hp, mp, ad, armor,      *)
(* magicResist and moveSpeed as the base value rounded to one decimal      *)
(* (within 0.05 of it), critChance, manaRegen and healthRegen with the     *)
(* base value, and attackSpeed with the base value when the level-1 attack *)
(* speed is not 0 and as NaN when it is 0.                                 *)
C13_EmptyMapsReturnRoundedBase ==
  ResolvedBare
    => /\ \A f \in LargeStats :
            /\ rsv.finalStats[f] % 100 = 0
            /\ Abs(rsv.finalStats[f] - rsv.championBaseStats[f]) <= 50
       /\ \A f \in {"critChance", "manaRegen", "healthRegen"} :
            rsv.finalStats[f] = rsv.championBaseStats[f]
       /\ rsv.finalStats.attackSpeed =
            IF rsv.championBaseStats.baseAttackSpeedValue = 0 THEN NaN
            ELSE Num(rsv.championBaseStats.attackSpeed)

(* A bare resolution of base stats with a second decimal, at a level       *)
(* above 1                                                                 *)
C13_Witness ==
  /\ ResolvedBare
  /\ rsv.championBaseStats.magicResist % 100 # 0
  /\ rsv.championBaseStats.attackSpeed # rsv.championBaseStats.baseAttackSpeedValue

(* C14: in every result of the resolver, bonusAd is the returned ad minus  *)
(* the base ad.                                                            *)
C14_BonusAdIsAdMinusBase ==
  Resolved => rsv.finalStats.bonusAd = rsv.finalStats.ad - rsv.championBaseStats.ad

(* The level-1 rate AS1, the rate at the level, and the percent bonus of   *)
(* the latest call                                                         *)
AS1 == rsv.championBaseStats.baseAttackSpeedValue
ASAtLevel == rsv.championBaseStats.attackSpeed
ASPercent == GivenSum("PercentAttackSpeedMod")

(* 10000 * AS1 * (1 + levelFactor + percent), with levelFactor =           *)
(* ASAtLevel / AS1 - 1: the uncapped value in ten-millionths.              *)
ASUncapped == AS1 * 10000 + (ASAtLevel - AS1) * 10000 + AS1 * ASPercent

FlatSum(statName) == Get(rsv.totalItemStats, statName) + Get(rsv.totalRuneStats, statName)

(* The seven stats of the rule, each with its base field and modifier keys *)
FlatPercentStats ==
  {<<"hp", "FlatHealthMod", "PercentHealthMod">>,
   <<"mp", "FlatManaMod", "PercentManaMod">>,
   <<"ad", "FlatAttackDamageMod", "PercentAttackDamageMod">>,
   <<"ap", "FlatAbilityPowerMod", "PercentAbilityPowerMod">>,
   <<"armor", "FlatArmorMod", "PercentArmorMod">>,
   <<"magicResist", "FlatMagicResistMod", "PercentMagicResistMod">>,
   <<"moveSpeed", "FlatMovementSpeedMod", "PercentMovementSpeedMod">>}

Aggregated ==
  /\ fcall.fn \in {"aggregateItemStats", "aggregateRuneStats"}
  /\ fcall.done /\ fcall.loadable

(* The function of the call applied to another list of ids *)
AggregateOf(ids) ==
  IF fcall.fn = "aggregateItemStats" THEN aggregateItemStats(ids)
  ELSE aggregateRuneStats(ids)

(* What one id contributes: the map the loop adds for it, or nothing *)
SourceOf(id) ==
  IF fcall.fn = "aggregateItemStats"
  THEN getProcessedItemData(id).finalStats
  ELSE IF getProcessedRuneData(id).isStatShard THEN getProcessedRuneData(id).parsedStats
       ELSE EmptyMap

Orderings(n) == {p \in [1..n -> 1..n] : \A i, j \in 1..n : p[i] = p[j] => i = j}

RECURSIVE SumOfKey(_, _)
SumOfKey(ids, k) ==
  IF ids = << >> THEN 0 ELSE Get(SourceOf(Head(ids)), k) + SumOfKey(Tail(ids), k)

KnownId(id) ==
  IF fcall.fn = "aggregateItemStats" THEN id \in DOMAIN ItemsJson
  ELSE \E i \in DOMAIN RunesJson : RunesJson[i].id = id

AggregationDone ==
  fcall.fn \in {"aggregateItemStats", "aggregateRuneStats"} /\ fcall.done

(* C18: an unknown, malformed or unloadable item or rune source            *)
(* contributes nothing and never aborts aggregation: for every list of     *)
(* ids, what the call returns is the aggregation of only the sources that  *)
(* resolve (none of them when the data file cannot be loaded).             *)
C18_BadSourcesContributeNothing ==
  AggregationDone
    => fcall.result = IF fcall.loadable THEN AggregateOf(SelectSeq(fcall.ids, KnownId))
                      ELSE EmptyMap

(* A finished call whose list mixes ids that resolve with ids that do not, *)
(* the bad id first                                                        *)
C18_Witness ==
  /\ AggregationDone /\ fcall.loadable
  /\ Len(fcall.ids) >= 2
  /\ ~KnownId(fcall.ids[1])
  /\ \E i \in 2..Len(fcall.ids) : KnownId(fcall.ids[i]) /\ DOMAIN SourceOf(fcall.ids[i]) # {}
  /\ fcall.result # EmptyMap

(* A finished call of calculateDamageMultiplier *)
MultiplierDone == fcall.fn = "calculateDamageMultiplier" /\ fcall.done

(* C20, as stated: at resistance exactly -100 the multiplier has a         *)
(* singularity and no finite value (a division by zero).                   *)
C20_SingularAtMinus100 ==
  (MultiplierDone /\ fcall.resistanceValue = 0 - 100000) => fcall.result[2] = 0

(* C20, amended: the multiplier is finite for every resistance; for a      *)
(* negative resistance it is 2 - 100 / (100 - resistance), strictly        *)
(* between 1 and 2, for a resistance of 0 or more it is                    *)
(* 100 / (100 + resistance), above 0 and at most 1; it is 1.5 at -100, 1   *)
(* at 0 and 0.5 at 100.                                                    *)
C20_FiniteEverywhere ==
  MultiplierDone
    => LET r == fcall.resistanceValue
           num == fcall.result[1]
           den == fcall.result[2]
       IN  /\ den > 0
           /\ r < 0 => /\ den < num /\ num < 2 * den
                       /\ den = 100000 - r /\ 2 * den - num = 100000
           /\ r >= 0 => /\ 0 < num /\ num <= den
                        /\ num = 100000 /\ den = 100000 + r
           /\ r = 0 - 100000 => 2 * num = 3 * den
           /\ r = 0 => num = den
           /\ r = 100000 => 2 * num = den

(* The call at resistance -100 returned 1.5 *)
C20_Witness ==
  /\ MultiplierDone /\ fcall.resistanceValue = 0 - 100000
  /\ fcall.result = <<300000, 200000>>

(* Lethality converted at the level the run was called with, clamped to    *)
(* 1..18                                                                   *)
LethalityAsFlatPen ==
  LET lvl == IF run.input.championLevel.v < 10 THEN 10
             ELSE IF run.input.championLevel.v > 180 THEN 180
                  ELSE run.input.championLevel.v
  IN  MulDivRound(run.finalChampionStats.lethality, 1080 + 4 * lvl, 1800)

(* targetArmor * (1 - percentArmorPen) - (flatArmorPen + lethality as flat *)
(* penetration), negative or not                                           *)
EffectiveArmorOfRun ==
  MulDivRound(heap[run.target].armor, 10000 - run.finalChampionStats.percentArmorPen, 10000)
    - (Get(run.finalChampionStats, "flatArmorPen") + LethalityAsFlatPen)

(* AD * (crit ? 1.75 + bonus : 1) * damageMultiplier(effective armor) *)
DamageOfAttack(isCrit) ==
  LET ea == EffectiveArmorOfRun
      beforeMitigation ==
        IF isCrit
        THEN MulDivRound(run.finalChampionStats.ad,
                         17500 + run.finalChampionStats.bonusCritDamagePercent, 10000)
        ELSE run.finalChampionStats.ad
  IN  IF ea >= 0 THEN MulDivRound(beforeMitigation, 100000, 100000 + ea)
      ELSE MulDivRound(beforeMitigation, 100000 - 2 * ea, 100000 - ea)

(* A step of the loop that made an attack *)
AttackStep == run.pc = "attacking" /\ run'.pc = "attacking"
                /\ run'.attackCount = run.attackCount + 1

(* C19: each attack deals AD * (crit ? 1.75 + bonusCritDamage : 1) *       *)
(* damageMultiplier(targetArmor * (1 - percentArmorPen) - (flatArmorPen +  *)
(* lethality converted at the level of the call)), the effective armor not *)
(* clamped when negative; the amount is added to totalDamageDealt and      *)
(* taken from the target's health (which stops at 0); AD 60 against 100    *)
(* armor without modifiers deals 30.                                       *)
C19_DamagePerAttack ==
  [][AttackStep
       => \E isCrit \in BOOLEAN :
            /\ isCrit => run.finalChampionStats.critChance > 0
            /\ ~isCrit => run.finalChampionStats.critChance < 10000
            /\ run'.totalDamageDealt = run.totalDamageDealt + DamageOfAttack(isCrit)
            /\ heap'[run.target].hp
                 = IF heap[run.target].hp - DamageOfAttack(isCrit) <= 0 THEN 0
                   ELSE heap[run.target].hp - DamageOfAttack(isCrit)
            /\ (/\ run.finalChampionStats.ad = 60000 /\ ~isCrit
                /\ heap[run.target].armor = 100000 /\ EffectiveArmorOfRun = 100000)
                 => run'.totalDamageDealt = run.totalDamageDealt + 30000]_vars

(* An attack was made against a negative effective armor and dealt more    *)
(* than the attack damage                                                  *)
C19_Witness ==
  /\ run.pc = "attacking" /\ run.attackCount = 1
  /\ run.finalChampionStats.critChance = 0
  /\ EffectiveArmorOfRun < 0
  /\ run.totalDamageDealt = DamageOfAttack(FALSE)
  /\ run.totalDamageDealt > run.finalChampionStats.ad

(* C30: a run whose champion has a level-1 base attack speed of 0 (so the  *)
(* resolved attack speed is no valid positive number) makes no attack and  *)
(* returns as "cannot attack": ttk = null, dps = 0, totalDamageDealt = 0   *)
(* and attackCount = 0.                                                    *)
C30_InvalidAttackSpeedCannotAttack ==
  (/\ run.pc \in {"attacking", "returned"}
   /\ run.finalChampionStats.baseAttackSpeedValue = 0)
    => /\ run.attackCount = 0 /\ run.totalDamageDealt = 0
       /\ heap[run.target].hp = TemplateHp
       /\ Returned
       /\ CannotAttack
       /\ run.result.ttk = null /\ run.result.dps = Num(0)
       /\ run.result.totalDamageDealt = 0 /\ run.result.attackCount = 0

(* A finished call of convertLethalityToFlatPen and its level, clamped *)
LethalityDone == fcall.fn = "convertLethalityToFlatPen" /\ fcall.done

ClampedLevel ==
  IF fcall.attackerLevel.v < 10 THEN 10
  ELSE IF fcall.attackerLevel.v > 180 THEN 180 ELSE fcall.attackerLevel.v

(* C21, as stated: the efficiency is exactly 60% at level 1 and exactly    *)
(* 100% at level 18.                                                       *)
C21_SixtyPercentAtLevelOne ==
  LethalityDone
    => /\ ClampedLevel = 10 => 10 * fcall.result = 6 * fcall.lethalityValue
       /\ ClampedLevel = 180 => fcall.result = fcall.lethalityValue

(* C21, amended: the efficiency is 0.6 + 0.4 * level / 18, linear in the   *)
(* level: 28/45 (62.2%) at level 1, 80% at level 9 and 100% at level 18;   *)
(* levels below 1 or above 18 are treated as 1 and 18.                     *)
C21_EfficiencyLinearInLevel ==
  LethalityDone
    => /\ Abs(1800 * fcall.result - fcall.lethalityValue * (1080 + 4 * ClampedLevel)) <= 900
       /\ (ClampedLevel = 10 /\ fcall.lethalityValue % 45 = 0)
            => 45 * fcall.result = 28 * fcall.lethalityValue
       /\ ClampedLevel = 90 => 10 * fcall.result = 8 * fcall.lethalityValue
       /\ ClampedLevel = 180 => fcall.result = fcall.lethalityValue
       /\ fcall.attackerLevel.v < 10
            => fcall.result = convertLethalityToFlatPen(fcall.lethalityValue, Num(10))
       /\ fcall.attackerLevel.v > 180
            => fcall.result = convertLethalityToFlatPen(fcall.lethalityValue, Num(180))

(* 45 lethality at level 1 became 28 flat penetration *)
C21_Witness ==
  /\ LethalityDone /\ fcall.attackerLevel = Num(10)
  /\ fcall.lethalityValue = 45000 /\ fcall.result = 28000

(* A finished call of one of the two description parsers, and its patterns *)
ParserDone ==
  fcall.fn \in {"parseItemStatsFromString", "parseRuneStatsFromString"} /\ fcall.done

PatternsOfCall ==
  IF fcall.fn = "parseItemStatsFromString" THEN ItemStatPatterns ELSE StatShardPatterns

(* The phrase is an occurrence of "+N <stat name>" for the stat key: one   *)
(* of the key's patterns has its unit and its text                         *)
OccurrenceOf(statName, phrase) ==
  \E i \in DOMAIN PatternsOfCall :
    /\ PatternsOfCall[i].name = statName
    /\ PatternsOfCall[i].pct = phrase.pct
    /\ PatternsOfCall[i].label = phrase.text

RECURSIVE SumOfOccurrences(_, _)
SumOfOccurrences(statName, description) ==
  IF description = << >> THEN 0
  ELSE (IF OccurrenceOf(statName, Head(description))
        THEN (IF Head(description).pct THEN 100 ELSE 1000) * Head(description).n
        ELSE 0)
       + SumOfOccurrences(statName, Tail(description))

(* C25: for each stat key the parsers return the sum of the numbers of all *)
(* "+N <stat name>" occurrences of that stat, each counted once: "+10      *)
(* Armor" and "+15 Armor" give 25, and a single "+25 Magic Resistance"     *)
(* gives 25.                                                               *)
C25_ParsersSumOccurrences ==
  ParserDone
    => /\ \A i \in DOMAIN PatternsOfCall :
            Get(fcall.result, PatternsOfCall[i].name)
              = SumOfOccurrences(PatternsOfCall[i].name, fcall.descriptionString)
       /\ fcall.descriptionString = <<Flat(10, "Armor"), Flat(15, "Armor")>>
            => fcall.result = Map1("FlatArmorMod", 25000)
       /\ fcall.descriptionString = <<Flat(25, "Magic Resistance")>>
            => fcall.result = Map1("FlatMagicResistMod", 25000)

(* A run that came through the endpoint with a well-formed body whose      *)
(* championId is no key of champions.json                                  *)
UnknownChampionRequest ==
  /\ run.pc \notin {"none", "rejected"} /\ run.via = "api"
  /\ run.input.championId \notin DOMAIN ChampionsJson

(* C24: a simulation request with a well-formed body whose championId is   *)
(* not in the champion data is answered with status 404 and an error       *)
(* message containing "not found", and no simulation result is produced:   *)
(* its run throws without running.                                         *)
C24_UnknownChampionIs404 ==
  /\ UnknownChampionRequest
       => /\ run.pc = "threw"
          /\ run.status = 404
          /\ run.error = ErrNotFound
          /\ run.result = EmptyMap
  /\ \A c \in BagToSet(pending) :
       (c.via = "api" /\ c.input.championId \notin DOMAIN ChampionsJson) => c.pc = "lookup"

(* The rune ids of a run as numbers, the form in which runes.json stores   *)
(* them                                                                    *)
NumericRuneIds(input) == [i \in DOMAIN input.runeIds |-> IdNumber(input.runeIds[i].v)]

(* C29: a rune id passed to /api/csu/simulate as a number or as a string   *)
(* that identifies a stat shard stored with a numeric id is found, and its *)
(* parsed stats are included in the final stats of the simulation: the     *)
(* final stats are those resolved with the shards of all such ids.         *)
C29_ApiRuneIdsFound ==
  (/\ run.via = "api" /\ run.pc \in {"attacking", "returned"}
   /\ \E i \in DOMAIN run.input.runeIds :
        getProcessedRuneData(IdNumber(run.input.runeIds[i].v)).isStatShard)
    => run.finalChampionStats
         = calculateFinalChampionStats(
             getBaseStatsAtLevel(Champion(run.input.championId, run.input.championLevel,
                                          getRawChampionData(run.input.championId))),
             aggregateItemStats(run.input.itemIds),
             aggregateRuneStats(NumericRuneIds(run.input))).finalStats

(* The last tool call was made with no remote request succeeding and with  *)
(* the local data files readable                                           *)
OfflineCall == mcp.calls > 0 /\ mcp.offline /\ mcp.localReadable

(* The last tool call asked for a champion of data/champions.json, or for  *)
(* the items or the runes                                                  *)
LocallyAnswerable ==
  mcp.last.tool = "get_champion_stats" => mcp.last.championName \in LocalChampions

C23_RepeatsServedFromCache ==
  (mcp.calls > 0 /\ mcp.last.repeat)
    => mcp.last.requests = 0 /\ ~mcp.last.isError /\ mcp.last.from = "remote"

(* The callers whose call of getAllRaw...Data has returned *)
ReturnedCallers == {c \in Callers : store.callers[c].pc = "returned"}

(* C26: getAllRawChampionData, getAllRawItemData and getAllRawRunesData    *)
(* return null on every call made while the data file cannot be loaded or  *)
(* parsed, not only on the first: a failed load is never reported later as *)
(* loaded, empty, data.                                                    *)
C26_NullOnEveryFailedCall ==
  (store.kind \in StoreKinds /\ store.file # "ok")
    => \A c \in ReturnedCallers : store.callers[c].got = Null

(* C27: each data store is loaded once and then reused: under any          *)
(* interleaving of concurrent first requests the data file is read and     *)
(* parsed at most once, and all callers see the same store.                *)
C27_LoadedOnce ==
  (store.kind \in StoreKinds /\ store.file = "ok")
    => /\ store.reads <= 1
       /\ store.parses <= 1
       /\ \A c, d \in ReturnedCallers : store.callers[c].got = store.callers[d].got

(* C28: the SSE session table holds exactly the sessions opened and not    *)
(* yet closed; a POST /messages is handed to a transport if and only if    *)
(* its sessionId is such a session, and any other sessionId gets status    *)
(* 400.                                                                    *)
C28_SessionTable ==
  /\ sse.table = sse.opened \ sse.closed
  /\ sse.posts > 0
       => /\ sse.last.outcome = "handled" <=> sse.last.wasOpen
          /\ ~sse.last.wasOpen => sse.last.outcome = "400"

====
